---- MODULE Spec2Model ----
(***************************************************************************)
(* Model of the asynchronous task pipeline of Script-Assist:               *)
(*   - TasksService (task lifecycle coordinator: create / update / remove) *)
(*   - the 'task-processing' queue and TaskProcessorService (worker pool)  *)
(*   - CacheService (counter store facade) and RateLimitGuard              *)
(* Spec covers the coordinator, the queue and the workers; SpecProc the     *)
(* workers fed by any producer; SpecCache the rate limiter over the counter *)
(* store; SpecFacade every operation of the counter store facade.          *)
(***************************************************************************)
EXTENDS Integers, Sequences, FiniteSets, TLC

\* ------------------------------------------------------------------ bounds
\* number of task ids ever handed out by the relational store
MaxTasks == 2
\* number of jobs ever placed on the queue
MaxJobs == 2
\* number of coordinator calls (create / update) ever started
MaxCalls == 2

\* --------------------------------------------------------------- constants
\* QUEUE_JOB_OPTIONS.attempts
JobAttempts == 3
\* QUEUE_CONSTANTS.MAX_RETRIES
MAX_RETRIES == 3
\* attempts of a job added without options (taskQueue.add(name, data))
DefaultAttempts == 1

TaskIds == 1..MaxTasks
\* TaskStatus enum
Statuses == {"PENDING", "IN_PROGRESS", "COMPLETED"}
\* a status-update payload may lack its status or carry a value outside the enum
NoStatus == "none"
BadStatus == "ARCHIVED"
\* a status-update payload may lack its task id
NoId == 0
\* the columns of a task besides its status, stood for by the title: the one
\* every task is created with, one an update may set, and none read yet
InitialTitle == "t0"
Titles == {InitialTitle, "t1"}
NoTitle == ""
\* a task row as the relational store holds it
Row(status, title) == [status |-> status, title |-> title]
\* a job payload without a batchSize field
NoBatchSize == -1000
\* job type tags: the two registered ones and an unregistered one
StatusUpdate == "task-status-update"
OverdueNotification == "overdue-tasks-notification"
UnknownTag == "unknown-job"
\* concurrent request contexts and worker slots
Reqs == {"r1"}
Workers == {"w1", "w2"}

VARIABLES
    tasks,          \* relational store: persisted task id -> row
    nextId,         \* next id the store hands out
    jobs,           \* queue transport: sequence of job records, index = job id
    req,            \* per request context: the running coordinator call
    wrk,            \* per worker slot: the job execution in flight
    calls,          \* coordinator calls started so far
    lastCommitted   \* per task id: status last committed through the coordinator

tvars == <<tasks, nextId, jobs, req, wrk, calls, lastCommitted>>

VARIABLES
    store,      \* the networked store: key -> [kind, n, ttl]
    connected,  \* client.status === 'ready'
    chk,        \* per admission check: the guard call in flight
    checks,     \* admission checks started so far
    applied,    \* per store key: INCRs applied since the key was created
    fac         \* the last finished call of a general facade operation

cvars == <<store, connected, chk, checks, applied, fac>>

VARIABLES
    bat,        \* the batchComplete call in flight
    scan,       \* the scanner run in flight
    ovd,        \* the overdue-notification handler execution in flight
    idn         \* the requests whose client identity was resolved

xvars == <<bat, scan, ovd, idn>>
vars == <<tvars, cvars, xvars>>


\* ------------------------------------------------------------ queue transport
\* a job as the transport holds it: made counts the executions that threw
\* (attemptsMade) and err is the error the last one threw (failedReason); by
\* names the producer; stale records that the coordinator committed the job's
\* task again after the job was created; idsKind tells what the payload's
\* taskIds is: absent, a list (held by ids), a non-empty text or an object
Job(name, taskId, status, attempts, by) ==
    [name |-> name, taskId |-> taskId, status |-> status, attempts |-> attempts,
     made |-> 0, state |-> "waiting", by |-> by, stale |-> FALSE,
     err |-> "none", ids |-> << >>, idsKind |-> "absent",
     batchSize |-> NoBatchSize]

\* a coordinator commit on task id: every job created for it so far is older
\* than the task's committed state
MarkStale(q, id) ==
    [j \in 1..Len(q) |-> IF q[j].taskId = id THEN [q[j] EXCEPT !.stale = TRUE]
                                              ELSE q[j]]

JobIds == 1..Len(jobs)

\* Queue.add: the job is appended to the waiting list
QueueAdd(q, job) == Append(q, job)

\* the transport hands out fresh jobs in FIFO order; a job waiting for a retry
\* re-enters after its backoff delay, at any later time
Fetchable(j) ==
    /\ j \in JobIds
    /\ jobs[j].state = "waiting"
    /\ \/ jobs[j].made > 0
       \/ \A k \in 1..(j - 1) : ~(jobs[k].state = "waiting" /\ jobs[k].made = 0)

\* a job that reached completed or failed is only retained for inspection:
\* nothing reads its payload again
Retained(job, state) ==
    [job EXCEPT !.state = state, !.taskId = NoId, !.status = NoStatus,
                !.stale = FALSE, !.ids = << >>, !.batchSize = NoBatchSize]

\* a transport that redelivers a failed job whatever its attempt count
SettleAlwaysRetries(job, err) ==
    IF err = "none"
    THEN Retained([job EXCEPT !.err = "none"], "completed")
    ELSE [job EXCEPT !.made = job.made + 1, !.err = err, !.state = "waiting"]

\* the transport's handling of a finished execution: a returned value completes
\* the job; a thrown error counts one attempt and the job is redelivered
\* while attempts remain, whatever the error was
Settle(job, err) ==
    IF err = "none"
    THEN Retained([job EXCEPT !.err = "none"], "completed")
    ELSE IF job.made + 1 < job.attempts
         THEN [job EXCEPT !.made = job.made + 1, !.err = err, !.state = "waiting"]
         ELSE Retained([job EXCEPT !.made = job.made + 1, !.err = err], "failed")

\* ------------------------------------------------------------ coordinator
IdleReq ==
    [op |-> "idle", pc |-> "idle", id |-> NoId, dto |-> NoStatus,
     orig |-> NoStatus, saved |-> NoStatus, committed |-> FALSE,
     rolledBack |-> FALSE, adds |-> <<>>, placed |-> 0, outcome |-> "none",
     result |-> NoStatus, title |-> NoTitle]

\* TasksService.create: queryRunner.startTransaction
CreateStart(r, st) ==
    /\ req[r].pc = "idle"
    /\ calls < MaxCalls
    /\ nextId <= MaxTasks
    /\ req' = [req EXCEPT ![r] = [IdleReq EXCEPT !.op = "create", !.pc = "save",
                                                 !.dto = st]]
    /\ calls' = calls + 1
    /\ UNCHANGED <<tasks, nextId, jobs, wrk, lastCommitted, cvars, xvars>>

\* TasksService.create: manager.save + commitTransaction succeed
CreateCommit(r) ==
    /\ req[r].op = "create" /\ req[r].pc = "save"
    /\ tasks' = [t \in DOMAIN tasks \cup {nextId} |->
                    IF t = nextId THEN Row(req[r].dto, InitialTitle) ELSE tasks[t]]
    /\ nextId' = nextId + 1
    /\ lastCommitted' = [lastCommitted EXCEPT ![nextId] = req[r].dto]
    /\ req' = [req EXCEPT ![r].pc = "enqueue", ![r].id = nextId,
                          ![r].saved = req[r].dto, ![r].committed = TRUE]
    /\ UNCHANGED <<jobs, wrk, calls, cvars, xvars>>

\* TasksService.create: manager.save (or the commit) throws: catch block
CreateFail(r) ==
    /\ req[r].op = "create" /\ req[r].pc = "save"
    /\ req' = [req EXCEPT ![r].pc = "ret", ![r].rolledBack = TRUE,
                          ![r].outcome = "error"]
    /\ UNCHANGED <<tasks, nextId, jobs, wrk, calls, lastCommitted, cvars, xvars>>

\* the payload create hands to taskQueue.add
CreatePayload(r) == [taskId |-> req[r].id, status |-> req[r].saved]

\* create without the inner try/catch: the queue error reaches the outer
\* catch block, which rolls back and rethrows
CreateOnQueueErrorPropagates(r) ==
    [req[r] EXCEPT !.pc = "ret", !.adds = Append(req[r].adds, CreatePayload(r)),
                   !.rolledBack = TRUE, !.outcome = "error"]

\* what create does when taskQueue.add throws: the inner catch logs and the
\* call goes on to return savedTask
CreateOnQueueError(r) ==
    [req[r] EXCEPT !.pc = "ret", !.adds = Append(req[r].adds, CreatePayload(r)),
                   !.outcome = "ok", !.result = req[r].saved]

\* TasksService.create: post-commit taskQueue.add, then return savedTask
CreateEnqueue(r) ==
    /\ req[r].op = "create" /\ req[r].pc = "enqueue"
    /\ \/ /\ Len(jobs) < MaxJobs
          /\ jobs' = QueueAdd(jobs, Job(StatusUpdate, CreatePayload(r).taskId,
                                        CreatePayload(r).status,
                                        DefaultAttempts, "coordinator"))
          /\ req' = [req EXCEPT ![r].pc = "ret",
                                ![r].adds = Append(req[r].adds, CreatePayload(r)),
                                ![r].placed = 1, ![r].outcome = "ok",
                                ![r].result = req[r].saved]
       \/ /\ jobs' = jobs
          /\ req' = [req EXCEPT ![r] = CreateOnQueueError(r)]
    /\ UNCHANGED <<tasks, nextId, wrk, calls, lastCommitted, cvars, xvars>>

\* TasksService.update: queryRunner.startTransaction
UpdateStart(r, id, dto) ==
    /\ req[r].pc = "idle"
    /\ calls < MaxCalls
    /\ req' = [req EXCEPT ![r] = [IdleReq EXCEPT !.op = "update", !.pc = "find",
                                                 !.id = id, !.dto = dto]]
    /\ calls' = calls + 1
    /\ UNCHANGED <<tasks, nextId, jobs, wrk, lastCommitted, cvars, xvars>>

\* manager.merge(Task, task, updateTaskDto): a dto carries one field, a status
\* or a title, or none; a dto without a status keeps the status read
Merge(status, dto) == IF dto \in Statuses THEN dto ELSE status

\* manager.merge(Task, task, updateTaskDto): a dto without a title keeps the
\* title read
MergeTitle(title, dto) == IF dto \in Titles THEN dto ELSE title

\* an update that does not check what findOne returned: an absent task is
\* saved as a new row
UpdateFindUpserts(r) ==
    /\ req[r].op = "update" /\ req[r].pc = "find"
    /\ req' = [req EXCEPT ![r].pc = "save",
                          ![r].orig = IF req[r].id \in DOMAIN tasks
                                      THEN tasks[req[r].id].status ELSE NoStatus,
                          ![r].saved = IF req[r].id \in DOMAIN tasks
                                       THEN Merge(tasks[req[r].id].status, req[r].dto)
                                       ELSE req[r].dto,
                          ![r].title = IF req[r].id \in DOMAIN tasks
                                       THEN MergeTitle(tasks[req[r].id].title, req[r].dto)
                                       ELSE InitialTitle]
    /\ UNCHANGED <<tasks, nextId, jobs, wrk, calls, lastCommitted, cvars, xvars>>

\* TasksService.update: manager.findOne inside the transaction; an absent
\* task throws NotFoundException, caught by the catch block (rollback, rethrow)
UpdateFind(r) ==
    /\ req[r].op = "update" /\ req[r].pc = "find"
    /\ IF req[r].id \in DOMAIN tasks
       THEN req' = [req EXCEPT ![r].pc = "save",
                               ![r].orig = tasks[req[r].id].status,
                               ![r].saved = Merge(tasks[req[r].id].status, req[r].dto),
                               ![r].title = MergeTitle(tasks[req[r].id].title,
                                                       req[r].dto)]
       ELSE req' = [req EXCEPT ![r].pc = "ret", ![r].rolledBack = TRUE,
                               ![r].outcome = "NotFound"]
    /\ UNCHANGED <<tasks, nextId, jobs, wrk, calls, lastCommitted, cvars, xvars>>

\* Repository/EntityManager.save(entity): the row of that id becomes the entity
SaveRow(db, id, row) ==
    [t \in DOMAIN db \cup {id} |-> IF t = id THEN row ELSE db[t]]

\* update enqueuing on every status-carrying save, changed or not
StatusChangedAlways(orig, saved) == TRUE

\* the comparison update makes after the commit: originalStatus !== updatedTask.status
StatusChanged(orig, saved) == orig # saved

\* TasksService.update: manager.save + commitTransaction succeed
UpdateCommit(r) ==
    /\ req[r].op = "update" /\ req[r].pc = "save"
    /\ tasks' = SaveRow(tasks, req[r].id, Row(req[r].saved, req[r].title))
    /\ lastCommitted' = [lastCommitted EXCEPT ![req[r].id] = req[r].saved]
    /\ jobs' = MarkStale(jobs, req[r].id)
    /\ req' = [req EXCEPT ![r].committed = TRUE,
                          ![r].pc = IF StatusChanged(req[r].orig, req[r].saved)
                                    THEN "enqueue" ELSE "reload"]
    /\ UNCHANGED <<nextId, wrk, calls, cvars, xvars>>

\* TasksService.update: manager.save (or the commit) throws: catch block
UpdateFail(r) ==
    /\ req[r].op = "update" /\ req[r].pc = "save"
    /\ req' = [req EXCEPT ![r].pc = "ret", ![r].rolledBack = TRUE,
                          ![r].outcome = "error"]
    /\ UNCHANGED <<tasks, nextId, jobs, wrk, calls, lastCommitted, cvars, xvars>>

\* the payload update hands to taskQueue.add
UpdatePayload(r) == [taskId |-> req[r].id, status |-> req[r].saved]

\* TasksService.update: post-commit taskQueue.add when the status changed;
\* a throwing add is logged and swallowed
UpdateEnqueue(r) ==
    /\ req[r].op = "update" /\ req[r].pc = "enqueue"
    /\ \/ /\ Len(jobs) < MaxJobs
          /\ jobs' = QueueAdd(jobs, Job(StatusUpdate, UpdatePayload(r).taskId,
                                        UpdatePayload(r).status,
                                        DefaultAttempts, "coordinator"))
          /\ req' = [req EXCEPT ![r].pc = "reload",
                                ![r].adds = Append(req[r].adds, UpdatePayload(r)),
                                ![r].placed = 1]
       \/ /\ jobs' = jobs
          /\ req' = [req EXCEPT ![r].pc = "reload",
                                ![r].adds = Append(req[r].adds, UpdatePayload(r))]
    /\ UNCHANGED <<tasks, nextId, wrk, calls, lastCommitted, cvars, xvars>>

\* TasksService.update: return this.findOne(id); the promise is returned, not
\* awaited, inside the try block, so its NotFoundException reaches the caller
\* without passing through the catch block
UpdateReload(r) ==
    /\ req[r].op = "update" /\ req[r].pc = "reload"
    /\ IF req[r].id \in DOMAIN tasks
       THEN req' = [req EXCEPT ![r].pc = "ret", ![r].outcome = "ok",
                               ![r].result = tasks[req[r].id].status]
       ELSE req' = [req EXCEPT ![r].pc = "ret", ![r].outcome = "NotFound"]
    /\ UNCHANGED <<tasks, nextId, jobs, wrk, calls, lastCommitted, cvars, xvars>>

\* the call returns (or raises) to its caller; the request context is free again
Return(r) ==
    /\ req[r].pc = "ret"
    /\ req' = [req EXCEPT ![r] = IdleReq]
    /\ UNCHANGED <<tasks, nextId, jobs, wrk, calls, lastCommitted, cvars, xvars>>

\* TasksService.remove: one delete statement (an absent id raises NotFound and
\* changes nothing)
Remove(id) ==
    /\ id \in DOMAIN tasks
    /\ tasks' = [t \in DOMAIN tasks \ {id} |-> tasks[t]]
    /\ UNCHANGED <<nextId, jobs, req, wrk, calls, lastCommitted, cvars, xvars>>

\* any other producer on the shared queue: a job with an unregistered tag, a
\* malformed status-update payload, or a status-update job carrying the
\* scanner's job options
ExternalJobs ==
    {Job(UnknownTag, NoId, NoStatus, a, "external") :
        a \in {DefaultAttempts, JobAttempts}}
    \cup {Job(StatusUpdate, NoId, "PENDING", JobAttempts, "external"),
          Job(StatusUpdate, 1, NoStatus, JobAttempts, "external"),
          Job(StatusUpdate, 1, BadStatus, JobAttempts, "external")}
    \cup {Job(StatusUpdate, t, "IN_PROGRESS", JobAttempts, "external") :
            t \in TaskIds}

ExternalAdd(job) ==
    /\ Len(jobs) < MaxJobs
    /\ jobs' = QueueAdd(jobs, job)
    /\ UNCHANGED <<tasks, nextId, req, wrk, calls, lastCommitted, cvars, xvars>>

\* ------------------------------------------------------------ job processor
\* title holds the columns of the entity updateStatus read
IdleWrk == [pc |-> "idle", job |-> 0, title |-> NoTitle]

\* the worker takes the next job: waiting -> active
Fetch(w, j) ==
    /\ wrk[w].pc = "idle"
    /\ Fetchable(j)
    /\ jobs' = [jobs EXCEPT ![j].state = "active"]
    /\ wrk' = [wrk EXCEPT ![w] = [IdleWrk EXCEPT !.pc = "run", !.job = j]]
    /\ UNCHANGED <<tasks, nextId, req, calls, lastCommitted, cvars, xvars>>

\* TaskProcessorService.process: switch (job.name)
Dispatch(job) ==
    IF job.name = StatusUpdate THEN "handleStatusUpdate"
    ELSE IF job.name = OverdueNotification THEN "handleOverdueTasks"
    ELSE "BadRequest"

\* a handler that checks nothing
ValidateNothing(job) == "none"

\* TaskProcessorService.handleStatusUpdate: the checks made before the task
\* store is called
Validate(job) ==
    IF job.taskId = NoId THEN "BadRequest"
    ELSE IF job.status = NoStatus THEN "BadRequest"
    ELSE IF job.status \notin Statuses THEN "BadRequest"
    ELSE "none"

\* TaskProcessorService.shouldRetry
ShouldRetry(err, job) ==
    IF job.made >= MAX_RETRIES THEN FALSE
    ELSE IF err \in {"BadRequest", "NotFound"} THEN FALSE
    ELSE TRUE

\* TaskProcessorService.process, catch block: what the execution ends with.
\* Both branches rethrow the error the handler raised.
ProcessCatch(err, job) ==
    IF ShouldRetry(err, job) /\ job.made < MAX_RETRIES
    THEN err
    ELSE err

\* a failed execution: process() rethrows and the transport settles the job
Throw(w, err) ==
    /\ jobs' = [jobs EXCEPT ![wrk[w].job] =
                   Settle(jobs[wrk[w].job], ProcessCatch(err, jobs[wrk[w].job]))]
    /\ wrk' = [wrk EXCEPT ![w] = IdleWrk]

\* process() up to the first call of the task store: an unregistered tag or an
\* invalid payload throws BadRequestException
RunReject(w) ==
    /\ wrk[w].pc = "run"
    /\ LET job == jobs[wrk[w].job] IN
          \/ Dispatch(job) = "BadRequest" /\ Throw(w, "BadRequest")
          \/ Dispatch(job) = "handleStatusUpdate" /\ Validate(job) # "none"
                /\ Throw(w, Validate(job))
    /\ UNCHANGED <<tasks, nextId, req, calls, lastCommitted, cvars, xvars>>

\* TasksService.updateStatus, first half: findOne(id); an absent task throws
\* NotFoundException, a store fault throws a transient error
UpdateStatusFind(w) ==
    /\ wrk[w].pc = "run"
    /\ LET job == jobs[wrk[w].job] IN
          /\ Dispatch(job) = "handleStatusUpdate"
          /\ Validate(job) = "none"
          /\ \/ /\ job.taskId \in DOMAIN tasks
                /\ wrk' = [wrk EXCEPT ![w].pc = "save",
                                      ![w].title = tasks[job.taskId].title]
                /\ jobs' = jobs
             \/ job.taskId \notin DOMAIN tasks /\ Throw(w, "NotFound")
             \/ Throw(w, "Transient")
    /\ UNCHANGED <<tasks, nextId, req, calls, lastCommitted, cvars, xvars>>

\* a status setter that refuses a status the task already has
UpdateStatusSaveRejectsSame(w) ==
    /\ wrk[w].pc = "save"
    /\ LET job == jobs[wrk[w].job] IN
          IF job.taskId \in DOMAIN tasks /\ tasks[job.taskId].status = job.status
          THEN Throw(w, "BadRequest") /\ tasks' = tasks
          ELSE /\ tasks' = SaveRow(tasks, job.taskId, Row(job.status, wrk[w].title))
               /\ jobs' = [jobs EXCEPT ![wrk[w].job] = Settle(job, "none")]
               /\ wrk' = [wrk EXCEPT ![w] = IdleWrk]
    /\ UNCHANGED <<nextId, req, calls, lastCommitted, cvars, xvars>>

\* TasksService.updateStatus, second half: task.status = status; save(task).
\* handleStatusUpdate then returns and the job completes
UpdateStatusSave(w) ==
    /\ wrk[w].pc = "save"
    /\ LET job == jobs[wrk[w].job] IN
          /\ tasks' = SaveRow(tasks, job.taskId, Row(job.status, wrk[w].title))
          /\ jobs' = [jobs EXCEPT ![wrk[w].job] = Settle(job, "none")]
          /\ wrk' = [wrk EXCEPT ![w] = IdleWrk]
    /\ UNCHANGED <<nextId, req, calls, lastCommitted, cvars, xvars>>
\* ------------------------------------------------------------ batchComplete
\* bound: ids in one batchComplete call, and the jobs the queue takes from
\* batchComplete calls
MaxBatch == 3

\* ids a caller may pass: those the store hands out and one that never exists
BatchIds == 1..(MaxTasks + 1)
\* id lists up to the order of their elements (the order only decides the
\* order of the jobs inside the bulk enqueue); an id may occur twice
BatchIdLists ==
    {ids \in UNION {[1..n -> BatchIds] : n \in 0..MaxBatch} :
        \A i \in 1..(Len(ids) - 1) : ids[i] <= ids[i + 1]}

IdleBat ==
    [op |-> "none", pc |-> "idle", ids |-> << >>, affected |-> 0, committed |-> FALSE,
     rolledBack |-> FALSE, adds |-> << >>, placed |-> 0, outcome |-> "none",
     success |-> 0, failed |-> 0, bulks |-> 0]

\* TasksService.batchComplete: startTransaction
BatchStart(ids) ==
    /\ bat.pc = "idle"
    /\ calls < MaxCalls
    /\ bat' = [IdleBat EXCEPT !.op = "batchComplete", !.pc = "update", !.ids = ids]
    /\ calls' = calls + 1
    /\ UNCHANGED <<tasks, nextId, jobs, req, wrk, lastCommitted, cvars, scan, ovd, idn>>

\* the rows { id: In(taskIds) } selects
Matched(db, ids) == {t \in DOMAIN db : \E i \in 1..Len(ids) : ids[i] = t}

\* manager.update(Task, { id: In(taskIds) }, { status }): the rows selected
\* take the status, the others stay
BulkUpdate(db, ids, status) ==
    [t \in DOMAIN db |-> IF t \in Matched(db, ids)
                         THEN [db[t] EXCEPT !.status = status]
                         ELSE db[t]]

\* a coordinator commit on several task ids at once
MarkStaleAll(q, idset) ==
    [j \in 1..Len(q) |-> IF q[j].taskId \in idset THEN [q[j] EXCEPT !.stale = TRUE]
                                                  ELSE q[j]]

\* a batchComplete reporting every requested id as completed
BatchCountsAllSucceeded(n, affected) == [success |-> n, failed |-> 0]

\* batchComplete's return value: { success: affected, failed: length - affected }
BatchCounts(n, affected) == [success |-> affected, failed |-> n - affected]

\* batchComplete returns its counts
BatchReturnValue(b) ==
    [b EXCEPT !.pc = "ret", !.outcome = "ok",
              !.success = BatchCounts(Len(b.ids), b.affected).success,
              !.failed = BatchCounts(Len(b.ids), b.affected).failed]

\* a batchComplete that calls addBulk whatever the id list holds
NeedsEnqueueAlways(ids) == TRUE

\* batchComplete's guard around the enqueue: if (taskIds.length > 0)
NeedsEnqueue(ids) == Len(ids) > 0

\* TasksService.batchComplete: bulk update + commitTransaction succeed; with an
\* empty id list the enqueue is skipped and the counts are returned
BatchCommit ==
    /\ bat.pc = "update"
    /\ tasks' = BulkUpdate(tasks, bat.ids, "COMPLETED")
    /\ lastCommitted' = [t \in TaskIds |->
                            IF t \in Matched(tasks, bat.ids) THEN "COMPLETED"
                            ELSE lastCommitted[t]]
    /\ jobs' = MarkStaleAll(jobs, Matched(tasks, bat.ids))
    /\ LET b == [bat EXCEPT !.committed = TRUE,
                            !.affected = Cardinality(Matched(tasks, bat.ids))]
       IN bat' = IF NeedsEnqueue(bat.ids) THEN [b EXCEPT !.pc = "enqueue"]
                                     ELSE BatchReturnValue(b)
    /\ UNCHANGED <<nextId, req, wrk, calls, cvars, scan, ovd, idn>>

\* a batchComplete whose catch block rethrows without rolling back
BatchFailNoRollback ==
    /\ bat.pc = "update"
    /\ bat' = [bat EXCEPT !.pc = "ret", !.outcome = "error"]
    /\ UNCHANGED <<tvars, cvars, scan, ovd, idn>>

\* TasksService.batchComplete: the bulk update (or the commit) throws: catch
\* block (rollback, rethrow)
BatchFail ==
    /\ bat.pc = "update"
    /\ bat' = [bat EXCEPT !.pc = "ret", !.rolledBack = TRUE, !.outcome = "error"]
    /\ UNCHANGED <<tvars, cvars, scan, ovd, idn>>

\* the jobs batchComplete hands to addBulk: one per id of taskIds
BatchJobs(ids) ==
    [i \in 1..Len(ids) |-> [taskId |-> ids[i], status |-> "COMPLETED"]]

\* batchComplete without the inner try/catch: the queue error reaches the
\* outer catch block, which rolls back and rethrows
BatchOnQueueErrorPropagates(b) ==
    [b EXCEPT !.pc = "ret", !.adds = BatchJobs(b.ids), !.rolledBack = TRUE,
              !.outcome = "error", !.bulks = b.bulks + 1]

\* what batchComplete does when addBulk throws: the inner catch logs and the
\* call goes on to return its counts
BatchOnQueueError(b) ==
    BatchReturnValue([b EXCEPT !.adds = BatchJobs(b.ids), !.bulks = b.bulks + 1])

\* TasksService.batchComplete: post-commit addBulk, then return the counts
BatchEnqueue ==
    /\ bat.pc = "enqueue"
    /\ \/ /\ Len(jobs) + Len(bat.ids) <= MaxBatch
          /\ jobs' = jobs \o [i \in 1..Len(bat.ids) |->
                                Job(StatusUpdate, BatchJobs(bat.ids)[i].taskId,
                                    BatchJobs(bat.ids)[i].status,
                                    DefaultAttempts, "coordinator")]
          /\ bat' = BatchReturnValue([bat EXCEPT !.adds = BatchJobs(bat.ids),
                                                 !.placed = Len(bat.ids),
                                                 !.bulks = bat.bulks + 1])
       \/ /\ jobs' = jobs
          /\ bat' = BatchOnQueueError(bat)
    /\ UNCHANGED <<tasks, nextId, req, wrk, calls, lastCommitted, cvars,
                   scan, ovd, idn>>

\* batchComplete returns (or raises) to its caller
BatchReturn ==
    /\ bat.pc = "ret"
    /\ bat' = IdleBat
    /\ UNCHANGED <<tvars, cvars, scan, ovd, idn>>

\* ------------------------------------------------------------ batchDelete
\* delete({ id: In(taskIds) }): the rows selected are gone
BulkDelete(db, ids) == [t \in DOMAIN db \ Matched(db, ids) |-> db[t]]

\* a batchDelete reporting every requested id as deleted
DeleteCountsAllSucceeded(n, affected) == [success |-> n, failed |-> 0]

\* batchDelete's return value:
\* { success: affected || 0, failed: length - (affected || 0) }
DeleteCounts(n, affected) == [success |-> affected, failed |-> n - affected]

\* TasksService.batchDelete: one delete statement outside any transaction,
\* then the counts; a failing statement changes nothing and its error reaches
\* the caller
BatchDelete(ids) ==
    /\ bat.pc = "idle"
    /\ LET affected == Cardinality(Matched(tasks, ids))
           call == [IdleBat EXCEPT !.op = "batchDelete", !.pc = "ret", !.ids = ids]
       IN
          \/ /\ tasks' = BulkDelete(tasks, ids)
             /\ bat' = [call EXCEPT !.outcome = "ok", !.affected = affected,
                           !.success = DeleteCounts(Len(ids), affected).success,
                           !.failed = DeleteCounts(Len(ids), affected).failed]
          \/ /\ tasks' = tasks
             /\ bat' = [call EXCEPT !.outcome = "error"]
    /\ UNCHANGED <<nextId, jobs, req, wrk, calls, lastCommitted, cvars, scan, ovd, idn>>

\* ------------------------------------------------------------ scanner
\* OVERDUE_TASKS_CONSTANTS
BATCH_SIZE == 100
MAX_TASKS_PER_RUN == 1000
\* bound: eligible (overdue, not completed) tasks the query may find
MaxFound == 250

Min(a, b) == IF a < b THEN a ELSE b
Max(a, b) == IF a > b THEN a ELSE b

\* Array.prototype.slice(begin, end): 0-based, end exclusive, both clamped to
\* the array, a negative index counting from the end
Slice(array, begin, end) ==
    LET n == Len(array)
        from == IF begin < 0 THEN Max(n + begin, 0) ELSE Min(begin, n)
        to == IF end < 0 THEN Max(n + end, 0) ELSE Min(end, n)
    IN IF from >= to THEN << >> ELSE SubSeq(array, from + 1, to)

\* a loop that skips a last, shorter chunk
LoopCountWholeOnly(len, size) == len \div size

\* for (let i = 0; i < len; i += size), size > 0: the number of iterations,
\* the k-th of which runs with i = (k - 1) * size
LoopCount(len, size) ==
    CHOOSE k \in 0..len : k * size >= len /\ (k = 0 \/ (k - 1) * size < len)

\* OverdueTasksService.chunkArray
ChunkArray(array, size) ==
    [k \in 1..LoopCount(Len(array), size) |->
        Slice(array, (k - 1) * size, (k - 1) * size + size)]

\* the id lists the scanner's query may return, oldest due date first: at most
\* MAX_TASKS_PER_RUN of the eligible tasks
QueryResults ==
    {Slice([i \in 1..n |-> i], 0, MAX_TASKS_PER_RUN) : n \in 0..MaxFound}

\* an overdue-notification job: { taskIds, batchSize } with its job options
OverdueJob(ids, batchSize, attempts, by) ==
    [Job(OverdueNotification, NoId, NoStatus, attempts, by)
        EXCEPT !.ids = ids, !.idsKind = "list", !.batchSize = batchSize]

\* bound: the largest number of eligible tasks the task table holds
MaxEligible == 1001

\* the task table as the scanner's query sees it, row k being the task with
\* id k: four tasks the query must leave out (completed and overdue, without
\* due date, due later, due at this very instant) followed by `eligible` tasks
\* that are overdue and not completed, the later id the longer overdue
NoBacklog == [eligible |-> 0, now |-> 0]

Backlogs ==
    {[eligible |-> e, now |-> MaxEligible + 1] :
        e \in {0, 1, 3, MAX_TASKS_PER_RUN - 1, MAX_TASKS_PER_RUN, MaxEligible}}

TableOf(backlog) ==
    [k \in 1..(4 + backlog.eligible) |->
        IF k = 1 THEN [hasDue |-> TRUE, due |-> 0, status |-> "COMPLETED"]
        ELSE IF k = 2 THEN [hasDue |-> FALSE, due |-> 0, status |-> "PENDING"]
        ELSE IF k = 3 THEN [hasDue |-> TRUE, due |-> backlog.now + 1,
                            status |-> "IN_PROGRESS"]
        ELSE IF k = 4 THEN [hasDue |-> TRUE, due |-> backlog.now, status |-> "PENDING"]
        ELSE [hasDue |-> TRUE, due |-> backlog.now - (k - 4),
              status |-> IF k % 2 = 0 THEN "PENDING" ELSE "IN_PROGRESS"]]

\* a filter that forgets the status
IsOverdueAnyStatus(row, now) == row.hasDue /\ row.due < now

\* where dueDate < :now and dueDate IS NOT NULL and status != COMPLETED
IsOverdue(row, now) ==
    row.hasDue /\ row.due < now /\ row.status # "COMPLETED"

\* orderBy('task.dueDate', 'ASC').limit(MAX_TASKS_PER_RUN), getMany, then
\* map(task => task.id); rows with equal due dates are taken in id order
OverdueQuery(table, now) ==
    LET n == Len(table)
        matching == {k \in 1..n : IsOverdue(table[k], now)}
        before(j, k) ==
            table[j].due < table[k].due \/ (table[j].due = table[k].due /\ j < k)
        rank == SubSeq([k \in 1..n |->
                          IF k \in matching
                          THEN 1 + Cardinality({j \in matching : before(j, k)})
                          ELSE 0], 1, n)
        at == [r \in 1..Cardinality(matching) |-> CHOOSE k \in 1..n : rank[k] = r]
    IN Slice(at, 0, MAX_TASKS_PER_RUN)

\* the rows the query reads: the due dates as the backlog gives them, the
\* status as the task store holds it for the tasks it holds
StoreTable(backlog) ==
    SubSeq([k \in 1..(4 + backlog.eligible) |->
               IF k \in DOMAIN tasks
               THEN [TableOf(backlog)[k] EXCEPT !.status = tasks[k].status]
               ELSE TableOf(backlog)[k]], 1, 4 + backlog.eligible)

\* checkOverdueTasks over a task table: now = new Date(), the query, then as
\* ScanQuery
ScanQueryTable(backlog) ==
    /\ scan.pc = "idle"
    /\ LET found == OverdueQuery(StoreTable(backlog), backlog.now) IN
          scan' = IF Len(found) = 0
                  THEN [scan EXCEPT !.pc = "ret", !.outcome = "ok",
                                    !.backlog = backlog, !.now = backlog.now]
                  ELSE [scan EXCEPT !.pc = "bulk", !.found = found,
                                    !.backlog = backlog, !.now = backlog.now,
                                    !.batches = ChunkArray(found, BATCH_SIZE)]
    /\ UNCHANGED <<tvars, cvars, bat, ovd, idn>>

\* what checkOverdueTasksManual handed back: nothing yet, { found, queued },
\* or the error of the run rethrown
NoResult == [kind |-> "none", found |-> 0, queued |-> 0]
Threw == [kind |-> "threw", found |-> 0, queued |-> 0]
FoundQueued(n) == [kind |-> "value", found |-> n, queued |-> n]

\* a scanner run: found is the query result, bulkJobs the id lists of the jobs
\* handed to the bulk call, addCalls the batch numbers submitted one at a time
\* and added those among them whose submission succeeded; manual tells that
\* the run was started by checkOverdueTasksManual, beforeCount is the waiting
\* count it sampled first and result what it returned
IdleScan ==
    [pc |-> "idle", found |-> << >>, batches |-> << >>, i |-> 0,
     totalQueued |-> 0, bulkCalls |-> 0, bulkJobs |-> << >>, addCalls |-> << >>,
     added |-> << >>, outcome |-> "none", backlog |-> NoBacklog, now |-> 0,
     warned |-> FALSE, manual |-> FALSE, beforeCount |-> 0, result |-> NoResult]

\* if (overdueTasks.length > this.MAX_TASKS_PER_RUN) logger.warn(...)
CeilingWarning(found) == found > MAX_TASKS_PER_RUN

\* the end of a run that found tasks: the completion log, then the ceiling
\* warning
RunEnd(sc) ==
    [sc EXCEPT !.pc = "ret", !.outcome = "ok",
               !.warned = CeilingWarning(Len(sc.found))]

\* checkOverdueTasks: the query returns; nothing found ends the run, else the
\* ids are chunked
ScanQuery(found) ==
    /\ scan.pc = "idle"
    /\ scan' = IF Len(found) = 0
               THEN [scan EXCEPT !.pc = "ret", !.outcome = "ok"]
               ELSE [scan EXCEPT !.pc = "bulk", !.found = found,
                                 !.batches = ChunkArray(found, BATCH_SIZE)]
    /\ UNCHANGED <<tvars, cvars, bat, ovd, idn>>

\* checkOverdueTasks: the query throws; the outer catch logs and rethrows
ScanQueryFail ==
    /\ scan.pc = "idle"
    /\ scan' = [scan EXCEPT !.pc = "ret", !.outcome = "error"]
    /\ UNCHANGED <<tvars, cvars, bat, ovd, idn>>

\* checkOverdueTasks: addBulk of one job per batch; when it throws the run
\* falls back to the one-at-a-time loop
ScanBulk ==
    /\ scan.pc = "bulk"
    /\ \/ /\ jobs' = jobs \o [k \in 1..Len(scan.batches) |->
                                OverdueJob(scan.batches[k], BATCH_SIZE,
                                           JobAttempts, "scanner")]
          /\ scan' = RunEnd([scan EXCEPT !.bulkCalls = scan.bulkCalls + 1,
                                          !.bulkJobs = scan.batches,
                                          !.totalQueued = Len(scan.found)])
       \/ /\ jobs' = jobs
          /\ scan' = [scan EXCEPT !.pc = "fallback", !.i = 0,
                                  !.bulkCalls = scan.bulkCalls + 1,
                                  !.bulkJobs = scan.batches]
    /\ UNCHANGED <<tasks, nextId, req, wrk, calls, lastCommitted, cvars, bat, ovd, idn>>

\* checkOverdueTasks: addBulk throws after the transport has taken the first
\* taken of its jobs: the bulk call hands the jobs to the store as a batch of
\* commands that are applied one by one, so an error reply to a later command,
\* or a connection lost before the replies arrive, reaches the caller as a
\* thrown error while the earlier jobs are on the queue; the run falls back
\* as after any failed bulk call
ScanBulkPartly ==
    /\ scan.pc = "bulk"
    /\ \E taken \in 1..Len(scan.batches) :
          jobs' = jobs \o [k \in 1..taken |->
                             OverdueJob(scan.batches[k], BATCH_SIZE,
                                        JobAttempts, "scanner")]
    /\ scan' = [scan EXCEPT !.pc = "fallback", !.i = 0,
                            !.bulkCalls = scan.bulkCalls + 1,
                            !.bulkJobs = scan.batches]
    /\ UNCHANGED <<tasks, nextId, req, wrk, calls, lastCommitted, cvars, bat, ovd, idn>>

\* a fallback loop that gives up at the first failing submission
AfterAddStopsOnError(sc, ok) ==
    IF ok /\ sc.i + 1 < Len(sc.batches)
    THEN [sc EXCEPT !.i = sc.i + 1]
    ELSE RunEnd([sc EXCEPT !.i = sc.i + 1])

\* the fallback loop after one submission, failed or not: i++, then the next
\* batch or the end of the run
AfterAdd(sc, ok) ==
    IF sc.i + 1 < Len(sc.batches)
    THEN [sc EXCEPT !.i = sc.i + 1]
    ELSE RunEnd([sc EXCEPT !.i = sc.i + 1])

\* checkOverdueTasks, fallback: taskQueue.add of batches[i]; a failure is
\* logged and the loop goes on
ScanAddOne ==
    /\ scan.pc = "fallback"
    /\ LET batch == scan.batches[scan.i + 1]
           tried == [scan EXCEPT !.addCalls = Append(scan.addCalls, scan.i + 1)]
       IN
          \/ /\ jobs' = QueueAdd(jobs, OverdueJob(batch, BATCH_SIZE, JobAttempts,
                                                  "scanner"))
             /\ scan' = AfterAdd([tried EXCEPT
                                     !.added = Append(scan.added, scan.i + 1),
                                     !.totalQueued = scan.totalQueued + Len(batch)],
                                 TRUE)
          \/ /\ jobs' = jobs
             /\ scan' = AfterAdd(tried, FALSE)
    /\ UNCHANGED <<tasks, nextId, req, wrk, calls, lastCommitted, cvars, bat, ovd, idn>>

\* checkOverdueTasks returns; the schedule (@Cron EVERY_HOUR) starts the next
\* run from scratch
ScanReturn ==
    /\ scan.pc = "ret"
    /\ scan' = IdleScan
    /\ UNCHANGED <<tvars, cvars, bat, ovd, idn>>

\* Queue.getWaitingCount: the jobs in the waiting list
WaitingCount(q) == Cardinality({j \in DOMAIN q : q[j].state = "waiting"})

\* checkOverdueTasksManual: beforeCount = await getWaitingCount(), then the
\* run of checkOverdueTasks
ManualStart ==
    /\ scan.pc = "idle" /\ ~scan.manual
    /\ scan' = [scan EXCEPT !.manual = TRUE, !.beforeCount = WaitingCount(jobs)]
    /\ UNCHANGED <<tvars, cvars, bat, ovd, idn>>

\* checkOverdueTasksManual after the run: afterCount = await
\* getWaitingCount(), queued = afterCount - beforeCount, return { found:
\* queued, queued }; an error the run rethrew leaves the function at the await
ManualReturn ==
    /\ scan.pc = "ret" /\ scan.manual
    /\ scan' = [scan EXCEPT
                   !.pc = "returned",
                   !.result = IF scan.outcome = "error"
                              THEN Threw
                              ELSE FoundQueued(WaitingCount(jobs) - scan.beforeCount)]
    /\ UNCHANGED <<tvars, cvars, bat, ovd, idn>>

\* ------------------------------------------------------------ overdue handler
\* the batchSize values a payload may carry: the scanner's, smaller ones, zero,
\* a negative one, or none
OverdueBatchSizes == {-1, 0, 1, 2, BATCH_SIZE, NoBatchSize}

\* overdue-notification jobs as any producer of the shared queue may add them
OverdueJobs ==
    {OverdueJob(ids, bs, JobAttempts, "external") :
        ids \in BatchIdLists, bs \in OverdueBatchSizes}

\* overdue-notification jobs whose payload carries no usable id list: no
\* taskIds, an empty list, a text or an object in its place; next to them one
\* job that carries an id
NoIdsJobs ==
    {[Job(OverdueNotification, NoId, NoStatus, JobAttempts, "external")
        EXCEPT !.idsKind = kind, !.batchSize = bs] :
        kind \in {"absent", "list", "text", "object"},
        bs \in {NoBatchSize, 0, BATCH_SIZE}}
    \cup {OverdueJob(<<1>>, BATCH_SIZE, JobAttempts, "external")}

\* the local state of the handler run in flight: slot[k] and attempts[k] belong
\* to taskIds[k]; batch holds the positions of the batch being awaited; errors
\* holds the positions whose failure was recorded, in push order
IdleOvd ==
    [pc |-> "idle", ids |-> << >>, batchSize |-> 0, i |-> 0, batch |-> << >>,
     slot |-> << >>, attempts |-> << >>, total |-> 0, processed |-> 0,
     failed |-> 0, errors |-> << >>, outcome |-> "none", read |-> << >>]

\* a producer adds an overdue-notification job to the empty queue
OverdueAdd(job) ==
    /\ jobs = << >>
    /\ jobs' = QueueAdd(jobs, job)
    /\ UNCHANGED <<tasks, nextId, req, wrk, calls, lastCommitted, cvars, xvars>>

\* const { taskIds, batchSize = 100 } = job.data
BatchSizeOf(job) == IF job.batchSize = NoBatchSize THEN 100 ELSE job.batchSize

\* a handler that takes anything with a positive length for an id list
HasTaskIdsAnyLength(job) ==
    /\ job.idsKind # "absent"
    /\ IF job.idsKind = "list" THEN Len(job.ids) > 0 ELSE job.idsKind = "text"

\* if (taskIds && Array.isArray(taskIds) && taskIds.length > 0): an absent
\* taskIds is falsy; a non-empty text is truthy and has a positive length but
\* is no array; an object is truthy, no array and has no length
HasTaskIds(job) ==
    /\ job.idsKind # "absent"
    /\ job.idsKind = "list"
    /\ IF job.idsKind = "list" THEN Len(job.ids) > 0 ELSE job.idsKind = "text"

\* handleOverdueTasks: without ids the job is a no-op success; with ids
\* processOverdueTaskBatch starts with results = { total, 0, 0, [] } and i = 0
OverdueBegin(w) ==
    /\ wrk[w].pc = "run"
    /\ LET job == jobs[wrk[w].job] IN
          /\ Dispatch(job) = "handleOverdueTasks"
          /\ IF HasTaskIds(job)
             THEN /\ ovd' = [IdleOvd EXCEPT
                               !.pc = "loop", !.ids = job.ids,
                               !.batchSize = BatchSizeOf(job),
                               !.slot = [k \in 1..Len(job.ids) |-> "new"],
                               !.attempts = [k \in 1..Len(job.ids) |-> 0],
                               !.read = [k \in 1..Len(job.ids) |-> NoTitle],
                               !.total = Len(job.ids)]
                  /\ wrk' = [wrk EXCEPT ![w].pc = "overdue"]
                  /\ jobs' = jobs
             ELSE /\ ovd' = [IdleOvd EXCEPT !.pc = "done", !.outcome = "ok"]
                  /\ jobs' = [jobs EXCEPT ![wrk[w].job] = Settle(job, "none")]
                  /\ wrk' = [wrk EXCEPT ![w] = IdleWrk]
    /\ UNCHANGED <<tasks, nextId, req, calls, lastCommitted, cvars, bat, scan, idn>>

\* the positions taskIds.slice(i, i + batchSize) takes
BatchPositions(n, i, batchSize) ==
    Slice([k \in 1..n |-> k], i, i + batchSize)

\* for (...; i < taskIds.length; ...) { batch = slice; batch.map(async ...) }:
\* every callback of the batch starts and stops at its first await
OverdueBatch(w) ==
    /\ wrk[w].pc = "overdue"
    /\ ovd.pc = "loop"
    /\ ovd.i < Len(ovd.ids)
    /\ LET batch == BatchPositions(Len(ovd.ids), ovd.i, ovd.batchSize)
           inBatch == {batch[b] : b \in 1..Len(batch)}
       IN ovd' = [ovd EXCEPT
                    !.pc = "await", !.batch = batch,
                    !.slot = [k \in 1..Len(ovd.ids) |->
                                IF k \in inBatch THEN "pending" ELSE ovd.slot[k]],
                    !.attempts = [k \in 1..Len(ovd.ids) |->
                                    IF k \in inBatch THEN ovd.attempts[k] + 1
                                    ELSE ovd.attempts[k]]]
    /\ UNCHANGED <<tvars, cvars, bat, scan, idn>>

\* a callback whose failure escapes and rejects the whole batch
OverdueCaughtRethrows(o, k) ==
    [o EXCEPT !.slot[k] = "failed", !.pc = "done", !.outcome = "error"]

\* the callback's catch block: results.failed++, results.errors.push(...)
OverdueCaught(o, k) ==
    [o EXCEPT !.slot[k] = "failed", !.failed = o.failed + 1,
              !.errors = Append(o.errors, k)]

\* updateStatus(taskId, PENDING), first half, for one id of the batch:
\* findOne(id) finds the task, or throws NotFoundException, or a store fault
OverdueFind(w, k) ==
    /\ wrk[w].pc = "overdue"
    /\ ovd.pc = "await"
    /\ k \in 1..Len(ovd.ids)
    /\ ovd.slot[k] = "pending"
    /\ \/ /\ ovd.ids[k] \in DOMAIN tasks
          /\ ovd' = [ovd EXCEPT !.slot[k] = "found",
                                !.read[k] = tasks[ovd.ids[k]].title]
       \/ ovd.ids[k] \notin DOMAIN tasks /\ ovd' = OverdueCaught(ovd, k)
       \/ ovd' = OverdueCaught(ovd, k)
    /\ UNCHANGED <<tvars, cvars, bat, scan, idn>>

\* updateStatus(taskId, PENDING), second half: task.status = PENDING;
\* save(task); results.processed++
OverdueSave(w, k) ==
    /\ wrk[w].pc = "overdue"
    /\ ovd.pc = "await"
    /\ k \in 1..Len(ovd.ids)
    /\ ovd.slot[k] = "found"
    /\ tasks' = SaveRow(tasks, ovd.ids[k], Row("PENDING", ovd.read[k]))
    /\ ovd' = [ovd EXCEPT !.slot[k] = "ok", !.processed = ovd.processed + 1,
                          !.read[k] = NoTitle]
    /\ UNCHANGED <<nextId, jobs, req, wrk, calls, lastCommitted, cvars, bat, scan, idn>>

\* every index below -n slices like -n: the loop index is kept in -n..n + 100
LoopIndex(i, n) == Max(i, 0 - n)

\* await Promise.all(batchPromises) resolves once every callback of the batch
\* has finished; then i += batchSize
OverdueNext(w) ==
    /\ wrk[w].pc = "overdue"
    /\ ovd.pc = "await"
    /\ \A b \in 1..Len(ovd.batch) : ovd.slot[ovd.batch[b]] \in {"ok", "failed"}
    /\ ovd' = [ovd EXCEPT !.pc = "loop", !.batch = << >>,
                          !.i = LoopIndex(ovd.i + ovd.batchSize, Len(ovd.ids))]
    /\ UNCHANGED <<tvars, cvars, bat, scan, idn>>

\* the loop is over: the aggregate is returned and the job completes
OverdueFinish(w) ==
    /\ wrk[w].pc = "overdue"
    /\ ovd.pc = "loop"
    /\ ovd.i >= Len(ovd.ids)
    /\ ovd' = [ovd EXCEPT !.pc = "done", !.outcome = "ok"]
    /\ jobs' = [jobs EXCEPT ![wrk[w].job] = Settle(jobs[wrk[w].job], "none")]
    /\ wrk' = [wrk EXCEPT ![w] = IdleWrk]
    /\ UNCHANGED <<tasks, nextId, req, calls, lastCommitted, cvars, bat, scan, idn>>

\* a whole execution of the oldest waiting overdue job with every store call
\* succeeding: updateStatus(taskId, PENDING) for each of its ids, each saving
\* the columns it read; the job completes and its retention (removeOnComplete)
\* has removed it by the next run
OverdueHandled ==
    /\ jobs # << >>
    /\ jobs[1].name = OverdueNotification
    /\ LET ids == {jobs[1].ids[p] : p \in 1..Len(jobs[1].ids)} IN
          tasks' = [t \in DOMAIN tasks |->
                        IF t \in ids THEN Row("PENDING", tasks[t].title)
                        ELSE tasks[t]]
    /\ jobs' = Tail(jobs)
    /\ UNCHANGED <<nextId, req, wrk, calls, lastCommitted, cvars, xvars>>

\* ====================================================================
\* Counter store facade (CacheService) and rate limiter (RateLimitGuard)
\* ====================================================================

\* bounds: largest time-to-live (seconds) a caller passes, the route limit,
\* the route window (ms), the number of admission checks ever started
MaxTtl == 2
Limit == 2
WindowMs == 1500
MaxChecks == 4

\* the getTTL sentinels (Redis TTL): key without expiry, key absent
NoExpiry == -1
Absent == -2
\* what increment returns when the store is not connected / a call throws
IncrementUnavailable == 0

RateLimitNs == "rate_limit"
AppNs == "app"
Namespaces == {RateLimitNs, AppNs}
\* the client identifier (truncated hash of the address); also used as a cache key
Idents == {"h1"}
\* concurrent admission checks (request contexts passing the guard)
Checks == {"c1", "c2"}
\* per-route options the guard reads from the decorator metadata
Routes == {[limit |-> Limit, windowMs |-> WindowMs]}

\* CacheService.buildKey
BuildKey(namespace, key) == namespace \o ":" \o key

StoreKeys == {BuildKey(ns, k) : ns \in Namespaces, k \in Idents}

\* results of facade calls
Void == [kind |-> "void", n |-> 0]
Null == [kind |-> "null", n |-> 0]
Bool(b) == [kind |-> "bool", n |-> IF b THEN 1 ELSE 0]
Num(n) == [kind |-> "num", n |-> n]
Json(n) == [kind |-> "json", n |-> n]
Raised == [kind |-> "raised", n |-> 0]

\* CacheService.<op>: the early return taken when isConnected() is false
NotConnectedResult(op) ==
    CASE op = "set" -> Void
      [] op = "get" -> Null
      [] op = "delete" -> Bool(FALSE)
      [] op = "clear" -> Void
      [] op = "has" -> Bool(FALSE)
      [] op = "increment" -> Num(IncrementUnavailable)
      [] op = "getTTL" -> Num(Absent)

\* a facade whose catch blocks rethrow
CatchResultRethrows(op) == Raised

\* CacheService.<op>: what the catch block returns when a store call throws
CatchResult(op) ==
    CASE op = "set" -> Void
      [] op = "get" -> Null
      [] op = "delete" -> Bool(FALSE)
      [] op = "clear" -> Void
      [] op = "has" -> Bool(FALSE)
      [] op = "increment" -> Num(0)
      [] op = "getTTL" -> Num(Absent)

\* the store drops a key (DEL, or its time-to-live ran out)
Drop(st, keys) == [k \in DOMAIN st \ keys |-> st[k]]

\* the store writes a key
Put(st, k, entry) == [x \in DOMAIN st \cup {k} |-> IF x = k THEN entry ELSE st[x]]

\* one second passes at the store: remaining times-to-live count down and a key
\* whose time has run out is gone (TTL reports 0 during its last second)
Tick ==
    /\ \E k \in DOMAIN store : store[k].ttl >= 0
    /\ LET gone == {k \in DOMAIN store : store[k].ttl = 0} IN
          /\ store' = [k \in DOMAIN store \ gone |->
                          IF store[k].ttl > 0
                          THEN [store[k] EXCEPT !.ttl = store[k].ttl - 1]
                          ELSE store[k]]
          /\ applied' = [k \in StoreKeys |-> IF k \in gone THEN 0 ELSE applied[k]]
    /\ UNCHANGED <<connected, chk, checks, fac, tvars, xvars>>

\* the connection to the store drops or comes back (ioredis status)
Disconnect ==
    /\ connected
    /\ connected' = FALSE
    /\ UNCHANGED <<store, chk, checks, applied, fac, tvars, xvars>>

Reconnect ==
    /\ ~connected
    /\ connected' = TRUE
    /\ UNCHANGED <<store, chk, checks, applied, fac, tvars, xvars>>

\* ------------------------------------------------- general facade operations
\* CacheService.set: SETEX key ttl JSON
Set(ns, key, ttl) ==
    /\ \/ ~connected /\ store' = store
             /\ fac' = [op |-> "set", cond |-> "down", ret |-> NotConnectedResult("set")]
       \/ connected /\ store' = store
             /\ fac' = [op |-> "set", cond |-> "throw", ret |-> CatchResult("set")]
       \/ connected
             /\ store' = Put(store, BuildKey(ns, key), [kind |-> "json", n |-> 1, ttl |-> ttl])
             /\ fac' = [op |-> "set", cond |-> "ok", ret |-> Void]
    /\ UNCHANGED <<connected, chk, checks, applied, tvars, xvars>>

\* CacheService.get: GET key, JSON.parse; an absent key (or empty value) is null
Get(ns, key) ==
    /\ \/ ~connected
             /\ fac' = [op |-> "get", cond |-> "down", ret |-> NotConnectedResult("get")]
       \/ connected
             /\ fac' = [op |-> "get", cond |-> "throw", ret |-> CatchResult("get")]
       \/ connected
             /\ fac' = [op |-> "get", cond |-> "ok",
                        ret |-> IF BuildKey(ns, key) \in DOMAIN store
                                THEN IF store[BuildKey(ns, key)].kind = "json"
                                     THEN Json(store[BuildKey(ns, key)].n)
                                     ELSE Num(store[BuildKey(ns, key)].n)
                                ELSE Null]
    /\ UNCHANGED <<store, connected, chk, checks, applied, tvars, xvars>>

\* CacheService.delete: DEL key; true when a key was deleted
Delete(ns, key) ==
    /\ \/ ~connected /\ store' = store /\ applied' = applied
             /\ fac' = [op |-> "delete", cond |-> "down", ret |-> NotConnectedResult("delete")]
       \/ connected /\ store' = store /\ applied' = applied
             /\ fac' = [op |-> "delete", cond |-> "throw", ret |-> CatchResult("delete")]
       \/ connected
             /\ store' = Drop(store, {BuildKey(ns, key)})
             /\ applied' = [k \in StoreKeys |->
                              IF k = BuildKey(ns, key) THEN 0 ELSE applied[k]]
             /\ fac' = [op |-> "delete", cond |-> "ok",
                        ret |-> Bool(BuildKey(ns, key) \in DOMAIN store)]
    /\ UNCHANGED <<connected, chk, checks, tvars, xvars>>

\* CacheService.has: EXISTS key
Has(ns, key) ==
    /\ \/ ~connected
             /\ fac' = [op |-> "has", cond |-> "down", ret |-> NotConnectedResult("has")]
       \/ connected
             /\ fac' = [op |-> "has", cond |-> "throw", ret |-> CatchResult("has")]
       \/ connected
             /\ fac' = [op |-> "has", cond |-> "ok",
                        ret |-> Bool(BuildKey(ns, key) \in DOMAIN store)]
    /\ UNCHANGED <<store, connected, chk, checks, applied, tvars, xvars>>

\* a stored key matches the glob `${prefix}*`
StartsWith(k, prefix) == Len(k) >= Len(prefix) /\ SubSeq(k, 1, Len(prefix)) = prefix

\* the keys KEYS `${namespace}:*` lists
KeysOf(st, ns) == {k \in DOMAIN st : StartsWith(k, BuildKey(ns, ""))}

\* CacheService.clear: KEYS namespace:* then DEL of the keys listed
Clear(ns) ==
    /\ \/ ~connected /\ store' = store /\ applied' = applied
             /\ fac' = [op |-> "clear", cond |-> "down", ret |-> NotConnectedResult("clear")]
       \/ connected /\ store' = store /\ applied' = applied
             /\ fac' = [op |-> "clear", cond |-> "throw", ret |-> CatchResult("clear")]
       \/ connected
             /\ store' = Drop(store, KeysOf(store, ns))
             /\ applied' = [k \in StoreKeys |->
                              IF k \in KeysOf(store, ns) THEN 0 ELSE applied[k]]
             /\ fac' = [op |-> "clear", cond |-> "ok", ret |-> Void]
    /\ UNCHANGED <<connected, chk, checks, tvars, xvars>>

\* ------------------------------------------------- RateLimitGuard / increment
NoPayload == [limit |-> 0, remaining |-> 0, resetIn |-> 0]

\* an admission check: ident is the hashed client identifier, newVal the value
\* INCR returned, cur what increment returned to the guard, ttl what getTTL
\* returned; incFault / ttlFault record a store error inside increment / getTTL;
\* ord is the position of this check's INCR among those applied to the counter
\* since it was created (0: none applied)
IdleChk ==
    [pc |-> "idle", ident |-> "h1", limit |-> 0, windowMs |-> 0, newVal |-> 0,
     cur |-> 0, ttl |-> Absent, verdict |-> "none", payload |-> NoPayload,
     incFault |-> FALSE, ttlFault |-> FALSE, ord |-> 0]

\* Math.ceil(windowMs / 1000)
TtlSeconds(windowMs) == (windowMs + 999) \div 1000

\* RateLimitGuard.canActivate: options from the route, identifier from the
\* request, then handleRateLimit
CheckStart(c, route, ident) ==
    /\ chk[c].pc = "idle"
    /\ checks < MaxChecks
    /\ chk' = [chk EXCEPT ![c] = [IdleChk EXCEPT !.pc = "incr", !.ident = ident,
                                                 !.limit = route.limit,
                                                 !.windowMs = route.windowMs]]
    /\ checks' = checks + 1
    /\ UNCHANGED <<store, connected, applied, fac, tvars, xvars>>

\* a guard comparing with >= : the limit-th request is already rejected
ExceededAtLimit(current, limit) == current >= limit

\* a guard that also rejects when the counter reports no count
ExceededOrNoCount(current, limit) == current > limit \/ current <= 0

\* handleRateLimit: if (current > limit)
Exceeded(current, limit) == current > limit

\* handleRateLimit after increment returned: go on to getTTL, or admit
AfterIncrement(check, current) ==
    IF Exceeded(current, check.limit)
    THEN [check EXCEPT !.cur = current, !.pc = "ttl"]
    ELSE [check EXCEPT !.cur = current, !.pc = "ret", !.verdict = "admit"]

\* an increment renewing the expiry on every call
NeedsExpireAlways(newValue, ttlSeconds) == ttlSeconds # 0

\* CacheService.increment: if (newValue === 1 && ttlSeconds)
NeedsExpire(newValue, ttlSeconds) == newValue = 1 /\ ttlSeconds # 0

\* CacheService.increment, first store call: isConnected(), then INCR (atomic
\* at the store; it throws on a value that is not an integer)
IncrCall(c) ==
    /\ chk[c].pc = "incr"
    /\ LET k == BuildKey(RateLimitNs, chk[c].ident)
           old == IF k \in DOMAIN store THEN store[k].n ELSE 0
           oldTtl == IF k \in DOMAIN store THEN store[k].ttl ELSE NoExpiry
       IN
          \/ /\ ~connected
             /\ chk' = [chk EXCEPT ![c] =
                   AfterIncrement([chk[c] EXCEPT !.incFault = TRUE],
                                  NotConnectedResult("increment").n)]
             /\ UNCHANGED <<store, applied>>
          \/ /\ connected
             /\ chk' = [chk EXCEPT ![c] =
                   AfterIncrement([chk[c] EXCEPT !.incFault = TRUE],
                                  CatchResult("increment").n)]
             /\ UNCHANGED <<store, applied>>
          \/ /\ connected
             /\ k \in DOMAIN store => store[k].kind = "int"
             /\ store' = Put(store, k, [kind |-> "int", n |-> old + 1, ttl |-> oldTtl])
             /\ applied' = [applied EXCEPT ![k] = applied[k] + 1]
             /\ chk' = [chk EXCEPT ![c] =
                   IF NeedsExpire(old + 1, TtlSeconds(chk[c].windowMs))
                   THEN [chk[c] EXCEPT !.newVal = old + 1, !.ord = applied[k] + 1,
                                       !.pc = "expire"]
                   ELSE AfterIncrement([chk[c] EXCEPT !.newVal = old + 1,
                                                      !.ord = applied[k] + 1],
                                       old + 1)]
    /\ UNCHANGED <<connected, checks, fac, tvars, xvars>>

\* CacheService.increment, second store call: EXPIRE key ttlSeconds, then
\* return newValue; a throwing EXPIRE lands in the catch block
ExpireCall(c) ==
    /\ chk[c].pc = "expire"
    /\ LET k == BuildKey(RateLimitNs, chk[c].ident) IN
          \/ /\ connected
             /\ store' = IF k \in DOMAIN store
                         THEN [store EXCEPT ![k].ttl = TtlSeconds(chk[c].windowMs)]
                         ELSE store
             /\ chk' = [chk EXCEPT ![c] = AfterIncrement(chk[c], chk[c].newVal)]
          \/ /\ store' = store
             /\ chk' = [chk EXCEPT ![c] =
                   AfterIncrement([chk[c] EXCEPT !.incFault = TRUE],
                                  CatchResult("increment").n)]
    /\ UNCHANGED <<connected, checks, applied, fac, tvars, xvars>>

\* handleRateLimit: resetTime - Date.now()
ResetDelay(ttl, windowMs) == IF ttl > 0 THEN ttl * 1000 ELSE windowMs

\* the body of the HttpException handleRateLimit throws
RejectPayload(check, ttl) ==
    [limit |-> check.limit, remaining |-> 0,
     resetIn |-> ResetDelay(ttl, check.windowMs)]

\* handleRateLimit over the limit: CacheService.getTTL, then the rejection
TtlCall(c) ==
    /\ chk[c].pc = "ttl"
    /\ LET k == BuildKey(RateLimitNs, chk[c].ident)
           Reject(ttl, fault) ==
               chk' = [chk EXCEPT ![c] =
                   [chk[c] EXCEPT !.ttl = ttl, !.ttlFault = fault, !.pc = "ret",
                                  !.verdict = "reject",
                                  !.payload = RejectPayload(chk[c], ttl)]]
       IN
          \/ ~connected /\ Reject(NotConnectedResult("getTTL").n, TRUE)
          \/ connected /\ Reject(CatchResult("getTTL").n, TRUE)
          \/ connected /\ Reject(IF k \in DOMAIN store THEN store[k].ttl ELSE Absent,
                                 FALSE)
    /\ UNCHANGED <<store, connected, checks, applied, fac, tvars, xvars>>

\* canActivate resolves (true) or rejects (HttpException): the check is over
CheckReturn(c) ==
    /\ chk[c].pc = "ret"
    /\ chk' = [chk EXCEPT ![c] = IdleChk]
    /\ UNCHANGED <<store, connected, checks, applied, fac, tvars, xvars>>

\* ------------------------------------------------- client identity
\* the addresses a request may carry; "" stands for a field or header that is
\* absent (undefined and the empty string are both falsy)
Addresses == {"10.0.0.1", "10.0.0.2"}
NoAddress == ""

\* x-forwarded-for values: absent, a single hop, a list of hops with blanks
ForwardedHeaders == {NoAddress, "10.0.0.1", "10.0.0.2", " 10.0.0.2 , 10.0.0.1"}

\* what getClientIdentifier reads of a request
Requests ==
    [ip : Addresses \cup {NoAddress}, remoteAddress : Addresses \cup {NoAddress},
     forwardedFor : ForwardedHeaders, realIp : Addresses \cup {NoAddress}]

\* s.split(',')[0]
FirstPart(s) ==
    LET commas == {i \in 1..Len(s) : SubSeq(s, i, i) = ","}
    IN IF commas = {} THEN s
       ELSE SubSeq(s, 1, (CHOOSE i \in commas : \A j \in commas : i <= j) - 1)

\* s.trim()
Trim(s) ==
    LET inked == {i \in 1..Len(s) : SubSeq(s, i, i) # " "}
    IN IF inked = {} THEN ""
       ELSE SubSeq(s, CHOOSE i \in inked : \A j \in inked : i <= j,
                      CHOOSE i \in inked : \A j \in inked : i >= j)

\* a || b
OrElse(a, b) == IF a # NoAddress THEN a ELSE b

\* getClientIdentifier: request.ip || request.connection?.remoteAddress ||
\* x-forwarded-for first hop || x-real-ip || 'unknown'
ClientAddress(request) ==
    OrElse(request.ip,
           OrElse(request.remoteAddress,
                  OrElse(Trim(FirstPart(request.forwardedFor)),
                         OrElse(request.realIp, "unknown"))))

\* a digest that keeps the address readable
Sha256Hex16Plain(address) == address

\* createHash('sha256').update(ip).digest('hex').substring(0, 16), tabulated
\* for the addresses of the model
Sha256Hex16(address) ==
    CASE address = "10.0.0.1" -> "f5047344122f0dee"
      [] address = "10.0.0.2" -> "cb5f37b4762871e6"
      [] address = "unknown" -> "b23a6a8439c0dde5"

\* the window a resolved request is checked with
IdentRoute == [limit |-> Limit, windowMs |-> WindowMs]

\* the HttpException body handleRateLimit throws, as text: error, message
\* (limit and window seconds), limit, remaining and the reset delay
RejectionText(check, ttl) ==
    LET p == RejectPayload(check, ttl) IN
       "{error:Rate limit exceeded,message:You have exceeded the rate limit of "
       \o ToString(check.limit) \o " requests per "
       \o ToString(check.windowMs \div 1000) \o " seconds.,limit:"
       \o ToString(p.limit) \o ",remaining:" \o ToString(p.remaining)
       \o ",resetIn:" \o ToString(p.resetIn) \o "}"

\* a request not yet seen
NoResolved ==
    [pc |-> "none",
     request |-> [ip |-> NoAddress, remoteAddress |-> NoAddress,
                  forwardedFor |-> NoAddress, realIp |-> NoAddress],
     address |-> NoAddress, identifier |-> NoAddress, key |-> NoAddress,
     body |-> NoAddress]

\* two requests, a then b
IdleIdn == [a |-> NoResolved, b |-> NoResolved]

\* canActivate up to the counter key: the identifier of the request and the
\* key increment builds from it
Identify(slot, request) ==
    /\ idn[slot].pc = "none"
    /\ slot = "b" => idn.a.pc # "none"
    /\ LET address == ClientAddress(request)
           identifier == Sha256Hex16(address)
       IN idn' = [idn EXCEPT ![slot] =
                    [NoResolved EXCEPT !.pc = "resolved", !.request = request,
                                       !.address = address,
                                       !.identifier = identifier,
                                       !.key = BuildKey(RateLimitNs, identifier)]]
    /\ UNCHANGED <<tvars, cvars, bat, scan, ovd>>

\* handleRateLimit over the limit for a resolved request: the rejection body
IdentReject(slot, ttl) ==
    /\ idn[slot].pc = "resolved"
    /\ idn' = [idn EXCEPT ![slot].pc = "rejected",
                          ![slot].body =
                             RejectionText([IdleChk EXCEPT
                                              !.ident = idn[slot].identifier,
                                              !.limit = IdentRoute.limit,
                                              !.windowMs = IdentRoute.windowMs],
                                           ttl)]
    /\ UNCHANGED <<tvars, cvars, bat, scan, ovd>>

\* ====================================================================
\* Specifications
\* ====================================================================
NoCall == [op |-> "none", cond |-> "ok", ret |-> Void]

CacheIdle ==
    /\ store = << >>
    /\ connected = TRUE
    /\ chk = [c \in Checks |-> IdleChk]
    /\ checks = 0
    /\ applied = [k \in StoreKeys |-> 0]
    /\ fac = NoCall

\* no batchComplete call, no scanner run and no overdue handler in flight
ExtIdle ==
    /\ bat = IdleBat
    /\ scan = IdleScan
    /\ ovd = IdleOvd
    /\ idn = IdleIdn

\* no task, no job and no coordinator call: the state after construction
TasksIdle ==
    /\ tasks = << >>
    /\ nextId = 1
    /\ jobs = << >>
    /\ req = [r \in Reqs |-> IdleReq]
    /\ wrk = [w \in Workers |-> IdleWrk]
    /\ calls = 0
    /\ lastCommitted = [t \in TaskIds |-> NoStatus]

\* The coordinator, the queue and the worker pool.
Init == TasksIdle /\ CacheIdle /\ ExtIdle

Next ==
    \/ \E r \in Reqs, st \in Statuses : CreateStart(r, st)
    \/ \E r \in Reqs : CreateCommit(r)
    \/ \E r \in Reqs : CreateFail(r)
    \/ \E r \in Reqs : CreateEnqueue(r)
    \/ \E r \in Reqs, id \in TaskIds, dto \in Statuses \cup {NoStatus} :
          UpdateStart(r, id, dto)
    \/ \E r \in Reqs : UpdateFind(r)
    \/ \E r \in Reqs : UpdateCommit(r)
    \/ \E r \in Reqs : UpdateFail(r)
    \/ \E r \in Reqs : UpdateEnqueue(r)
    \/ \E r \in Reqs : UpdateReload(r)
    \/ \E r \in Reqs : Return(r)
    \/ \E id \in TaskIds : Remove(id)
    \/ \E w \in Workers, j \in JobIds : Fetch(w, j)
    \/ \E w \in Workers : UpdateStatusFind(w)
    \/ \E w \in Workers : UpdateStatusSave(w)

Spec == Init /\ [][Next]_vars

\* The worker pool fed by any producer of the shared queue: the tasks exist
\* already (created earlier, their creation jobs long gone) and no coordinator
\* call is in flight; tasks may be removed while jobs wait.
InitProc ==
    /\ tasks = [t \in TaskIds |-> Row("PENDING", InitialTitle)]
    /\ nextId = MaxTasks + 1
    /\ jobs = << >>
    /\ req = [r \in Reqs |-> IdleReq]
    /\ wrk = [w \in Workers |-> IdleWrk]
    /\ calls = 0
    /\ lastCommitted = [t \in TaskIds |-> "PENDING"]
    /\ CacheIdle
    /\ ExtIdle

NextProc ==
    \/ \E job \in ExternalJobs : ExternalAdd(job)
    \/ \E id \in TaskIds : Remove(id)
    \/ \E w \in Workers, j \in JobIds : Fetch(w, j)
    \/ \E w \in Workers : RunReject(w)
    \/ \E w \in Workers : UpdateStatusFind(w)
    \/ \E w \in Workers : UpdateStatusSave(w)

SpecProc == InitProc /\ [][NextProc]_vars

\* The worker pool never stops: a worker that can take a job or go on with the
\* one it holds eventually does.
ProcFairness ==
    /\ \A w \in Workers : WF_vars(RunReject(w))
    /\ \A w \in Workers : WF_vars(UpdateStatusFind(w))
    /\ \A w \in Workers : WF_vars(UpdateStatusSave(w))
    /\ \A w \in Workers : \A j \in 1..MaxJobs : WF_vars(Fetch(w, j))

\* the jobs whose executions may fail: a status update for task 1 with the
\* default or the shared attempt count, and a job with an unregistered tag
RetryJobs ==
    {Job(StatusUpdate, 1, "IN_PROGRESS", a, "external") :
        a \in {DefaultAttempts, JobAttempts}}
    \cup {Job(UnknownTag, NoId, NoStatus, JobAttempts, "external")}

\* The worker pool on those jobs, with store faults at any execution and the
\* task removed at any time.
NextRetry ==
    \/ \E job \in RetryJobs : ExternalAdd(job)
    \/ Remove(1)
    \/ \E w \in Workers, j \in JobIds : Fetch(w, j)
    \/ \E w \in Workers : RunReject(w)
    \/ \E w \in Workers : UpdateStatusFind(w)
    \/ \E w \in Workers : UpdateStatusSave(w)

SpecRetry == InitProc /\ [][NextRetry]_vars /\ ProcFairness

\* status-update jobs with a payload that lacks the task id, lacks the status
\* or carries an unknown status, next to one that is valid
ValidationJobs ==
    {Job(StatusUpdate, NoId, "PENDING", JobAttempts, "external"),
     Job(StatusUpdate, 1, NoStatus, JobAttempts, "external"),
     Job(StatusUpdate, 1, BadStatus, JobAttempts, "external"),
     Job(StatusUpdate, 1, "COMPLETED", DefaultAttempts, "external")}

\* The worker pool on those jobs.
NextValidate ==
    \/ \E job \in ValidationJobs : ExternalAdd(job)
    \/ Remove(1)
    \/ \E w \in Workers, j \in JobIds : Fetch(w, j)
    \/ \E w \in Workers : RunReject(w)
    \/ \E w \in Workers : UpdateStatusFind(w)
    \/ \E w \in Workers : UpdateStatusSave(w)

SpecValidate == InitProc /\ [][NextValidate]_vars

\* The counter store facade and the rate limiter.
InitCache == TasksIdle /\ CacheIdle /\ ExtIdle

NextCache ==
    \/ Tick
    \/ Disconnect
    \/ Reconnect
    \/ \E c \in Checks, route \in Routes, ident \in Idents : CheckStart(c, route, ident)
    \/ \E c \in Checks : IncrCall(c)
    \/ \E c \in Checks : ExpireCall(c)
    \/ \E c \in Checks : TtlCall(c)
    \/ \E c \in Checks : CheckReturn(c)

SpecCache == InitCache /\ [][NextCache]_vars

\* Every operation of the facade, called by any client of it, next to the
\* admission checks of one request context.
NextFacade ==
    \/ Tick
    \/ Disconnect
    \/ Reconnect
    \/ \E ns \in Namespaces, key \in Idents, ttl \in 1..MaxTtl : Set(ns, key, ttl)
    \/ \E ns \in Namespaces, key \in Idents : Get(ns, key)
    \/ \E ns \in Namespaces, key \in Idents : Delete(ns, key)
    \/ \E ns \in Namespaces, key \in Idents : Has(ns, key)
    \/ \E ns \in Namespaces : Clear(ns)
    \/ \E route \in Routes, ident \in Idents : CheckStart("c1", route, ident)
    \/ IncrCall("c1")
    \/ ExpireCall("c1")
    \/ TtlCall("c1")
    \/ CheckReturn("c1")

SpecFacade == InitCache /\ [][NextFacade]_vars

\* The facade called with namespaces and keys that themselves hold the ':'
\* separator: the parameters are plain strings and buildKey joins them as
\* they come.
NestedNs == "app:user"
NestedNamespaces == {AppNs, NestedNs}
NestedPairs ==
    {[ns |-> AppNs, key |-> "1"],
     [ns |-> AppNs, key |-> "user:1"],
     [ns |-> NestedNs, key |-> "1"]}

NextNested ==
    \/ Tick
    \/ Disconnect
    \/ Reconnect
    \/ \E p \in NestedPairs, ttl \in 1..MaxTtl : Set(p.ns, p.key, ttl)
    \/ \E p \in NestedPairs : Get(p.ns, p.key)
    \/ \E p \in NestedPairs : Delete(p.ns, p.key)
    \/ \E p \in NestedPairs : Has(p.ns, p.key)
    \/ \E ns \in NestedNamespaces : Clear(ns)

SpecNested == InitCache /\ [][NextNested]_vars

\* The coordinator alone: create, update, batchComplete and remove, with the
\* queue filling up and no worker consuming it.
NextCoord ==
    \/ \E r \in Reqs, st \in Statuses : CreateStart(r, st)
    \/ \E r \in Reqs : CreateCommit(r)
    \/ \E r \in Reqs : CreateFail(r)
    \/ \E r \in Reqs : CreateEnqueue(r)
    \/ \E r \in Reqs, id \in TaskIds, dto \in Statuses \cup {NoStatus} :
          UpdateStart(r, id, dto)
    \/ \E r \in Reqs : UpdateFind(r)
    \/ \E r \in Reqs : UpdateCommit(r)
    \/ \E r \in Reqs : UpdateFail(r)
    \/ \E r \in Reqs : UpdateEnqueue(r)
    \/ \E r \in Reqs : UpdateReload(r)
    \/ \E r \in Reqs : Return(r)
    \/ \E id \in TaskIds : Remove(id)
    \/ \E ids \in BatchIdLists : BatchStart(ids)
    \/ BatchCommit
    \/ BatchFail
    \/ BatchEnqueue
    \/ BatchReturn

SpecCoord == Init /\ [][NextCoord]_vars

\* One coordinator update racing the worker pool on tasks that exist already:
\* the update carries a status, a title or neither, and a producer adds valid
\* status-update jobs.
SerialDtos == {"COMPLETED", NoStatus} \cup (Titles \ {InitialTitle})

SerialJobs ==
    {Job(StatusUpdate, t, "IN_PROGRESS", DefaultAttempts, "external") :
        t \in TaskIds}

NextSerial ==
    \/ \E r \in Reqs, id \in TaskIds, dto \in SerialDtos : UpdateStart(r, id, dto)
    \/ \E r \in Reqs : UpdateFind(r)
    \/ \E r \in Reqs : UpdateCommit(r)
    \/ \E r \in Reqs : UpdateFail(r)
    \/ \E r \in Reqs : UpdateEnqueue(r)
    \/ \E r \in Reqs : UpdateReload(r)
    \/ \E r \in Reqs : Return(r)
    \/ \E job \in SerialJobs : ExternalAdd(job)
    \/ \E w \in Workers, j \in JobIds : Fetch(w, j)
    \/ \E w \in Workers : UpdateStatusFind(w)
    \/ \E w \in Workers : UpdateStatusSave(w)

SpecSerial == InitProc /\ [][NextSerial]_vars

\* Tasks created through the coordinator and deleted in bulk or one by one.
NextDelete ==
    \/ \E r \in Reqs, st \in Statuses : CreateStart(r, st)
    \/ \E r \in Reqs : CreateCommit(r)
    \/ \E r \in Reqs : CreateFail(r)
    \/ \E r \in Reqs : CreateEnqueue(r)
    \/ \E r \in Reqs : Return(r)
    \/ \E id \in TaskIds : Remove(id)
    \/ \E ids \in BatchIdLists : BatchDelete(ids)
    \/ BatchReturn

SpecDelete == Init /\ [][NextDelete]_vars

\* One run of the scanner over an empty queue.
NextScan ==
    \/ \E found \in QueryResults : ScanQuery(found)
    \/ ScanQueryFail
    \/ ScanBulk
    \/ ScanAddOne

SpecScan == Init /\ [][NextScan]_vars

\* One run of the scanner over an empty queue whose bulk call may also fail
\* after part of its jobs were taken.
NextPartial ==
    \/ \E found \in QueryResults : ScanQuery(found)
    \/ ScanQueryFail
    \/ ScanBulk
    \/ ScanBulkPartly
    \/ ScanAddOne

SpecPartial == Init /\ [][NextPartial]_vars

\* One overdue-notification job and the worker pool: the tasks exist already,
\* all in one status, and may be removed while the job runs.
InitOverdue ==
    /\ \E st \in Statuses :
          /\ tasks = [t \in TaskIds |-> Row(st, InitialTitle)]
          /\ lastCommitted = [t \in TaskIds |-> st]
    /\ nextId = MaxTasks + 1
    /\ jobs = << >>
    /\ req = [r \in Reqs |-> IdleReq]
    /\ wrk = [w \in Workers |-> IdleWrk]
    /\ calls = 0
    /\ CacheIdle
    /\ ExtIdle

NextOverdue ==
    \/ \E job \in OverdueJobs : OverdueAdd(job)
    \/ \E id \in TaskIds : Remove(id)
    \/ \E w \in Workers, j \in JobIds : Fetch(w, j)
    \/ \E w \in Workers : OverdueBegin(w)
    \/ \E w \in Workers : OverdueBatch(w)
    \/ \E w \in Workers, k \in 1..MaxBatch : OverdueFind(w, k)
    \/ \E w \in Workers, k \in 1..MaxBatch : OverdueSave(w, k)
    \/ \E w \in Workers : OverdueNext(w)
    \/ \E w \in Workers : OverdueFinish(w)

SpecOverdue == InitOverdue /\ [][NextOverdue]_vars

\* The manual trigger next to another producer, which may have added a job to
\* the shared queue, and the worker pool, which takes waiting jobs.
NextManual ==
    \/ OverdueAdd(OverdueJob(<<1>>, BATCH_SIZE, JobAttempts, "external"))
    \/ \E w \in Workers, j \in JobIds : Fetch(w, j)
    \/ ManualStart
    \/ \E found \in QueryResults : ScanQuery(found)
    \/ ScanQueryFail
    \/ ScanBulk
    \/ ScanAddOne
    \/ ManualReturn

SpecManual == Init /\ [][NextManual]_vars

\* One overdue-notification job that carries no usable id list, or one id, and
\* the worker pool.
NextNoIds ==
    \/ \E job \in NoIdsJobs : OverdueAdd(job)
    \/ \E id \in TaskIds : Remove(id)
    \/ \E w \in Workers, j \in JobIds : Fetch(w, j)
    \/ \E w \in Workers : OverdueBegin(w)
    \/ \E w \in Workers : OverdueBatch(w)
    \/ \E w \in Workers, k \in 1..MaxBatch : OverdueFind(w, k)
    \/ \E w \in Workers, k \in 1..MaxBatch : OverdueSave(w, k)
    \/ \E w \in Workers : OverdueNext(w)
    \/ \E w \in Workers : OverdueFinish(w)

SpecNoIds == InitOverdue /\ [][NextNoIds]_vars

\* the event loop runs every continuation of the handler that is ready: the
\* loop's next iteration, each callback's store calls, the final return
OverdueFairness ==
    \A w \in Workers :
        /\ WF_vars(OverdueBegin(w))
        /\ WF_vars(OverdueBatch(w))
        /\ WF_vars(OverdueNext(w))
        /\ WF_vars(OverdueFinish(w))
        /\ \A k \in 1..MaxBatch :
              WF_vars(OverdueFind(w, k)) /\ WF_vars(OverdueSave(w, k))

SpecOverdueFair == InitOverdue /\ [][NextOverdue]_vars /\ OverdueFairness

\* a strict route and a general one, as @RateLimit configures them (login
\* against the other endpoints), scaled down; their limits differ, so a
\* check's limit names its route
GuardedRoutes ==
    {[limit |-> 1, windowMs |-> WindowMs], [limit |-> Limit, windowMs |-> WindowMs]}

\* One client calling two routes within one window; finished checks are kept.
NextRoutes ==
    \/ \E c \in Checks, route \in GuardedRoutes, ident \in Idents :
          CheckStart(c, route, ident)
    \/ \E c \in Checks : IncrCall(c)
    \/ \E c \in Checks : ExpireCall(c)
    \/ \E c \in Checks : TtlCall(c)
    \/ Disconnect
    \/ Reconnect

SpecRoutes == InitCache /\ [][NextRoutes]_vars

\* The guard's resolution of the client identity for two requests.
NextIdent ==
    \/ \E slot \in {"a", "b"}, request \in Requests : Identify(slot, request)
    \/ \E slot \in {"a", "b"}, ttl \in {Absent, MaxTtl} : IdentReject(slot, ttl)

SpecIdent == Init /\ [][NextIdent]_vars

\* One run of the scanner over a task table.
NextQuery ==
    \/ \E backlog \in Backlogs : ScanQueryTable(backlog)
    \/ ScanQueryFail
    \/ ScanBulk
    \/ ScanAddOne

SpecQuery == Init /\ [][NextQuery]_vars

\* The scanner firing again and again over a task store that holds a backlog,
\* the queue accepting every submission and the workers draining it between
\* two runs: the store holds the tasks of one backlog, with the statuses the
\* backlog gives them.
Holds(backlog) == DOMAIN tasks = 1..(4 + backlog.eligible)

InitStarve ==
    /\ \E backlog \in Backlogs :
          tasks = [k \in 1..(4 + backlog.eligible) |->
                      Row(TableOf(backlog)[k].status, InitialTitle)]
    /\ nextId = 1
    /\ jobs = << >>
    /\ req = [r \in Reqs |-> IdleReq]
    /\ wrk = [w \in Workers |-> IdleWrk]
    /\ calls = 0
    /\ lastCommitted = [t \in TaskIds |-> NoStatus]
    /\ CacheIdle
    /\ ExtIdle

ScanStart ==
    \E backlog \in Backlogs :
        Holds(backlog) /\ jobs = << >> /\ ScanQueryTable(backlog)

ScanBulkAccepted == ScanBulk /\ scan'.pc = "ret"

NextStarve ==
    \/ ScanStart
    \/ ScanBulkAccepted
    \/ ScanReturn
    \/ OverdueHandled

\* the schedule fires again and again: the scanner does not stay idle over a
\* drained queue for ever; a run that started goes on to its end, and the
\* workers go on executing the jobs that wait
StarveFairness ==
    /\ []<>(scan.pc # "idle" \/ jobs # << >>)
    /\ WF_vars(ScanBulkAccepted)
    /\ WF_vars(ScanReturn)
    /\ WF_vars(OverdueHandled)

SpecStarve == InitStarve /\ [][NextStarve]_vars /\ StarveFairness

\* ====================================================================
\* Claims about the coordinator, the queue and the job processor
\* ====================================================================

\* C1: whenever create's transaction committed, the step in which the
\* post-commit enqueue is attempted ends the call with the saved task returned
\* to the caller, whether the enqueue succeeded or threw: no error outcome, no
\* rollback, and the task store is left exactly as it was (the saved row stays).
CreateSurvivesQueueError ==
    [][\A r \in Reqs :
          (req[r].op = "create" /\ req[r].committed /\ req'[r] # req[r]
              /\ req'[r].op = "create")
          => /\ req'[r].pc = "ret"
             /\ req'[r].outcome = "ok"
             /\ req'[r].result = req[r].saved
             /\ ~req'[r].rolledBack
             /\ tasks' = tasks]_vars

\* C1 witness: a create returned its task although the enqueue threw, and the
\* task is persisted
CreateReturnedAfterQueueError ==
    \E r \in Reqs :
        /\ req[r].op = "create" /\ req[r].pc = "ret" /\ req[r].committed
        /\ req[r].placed = 0 /\ Len(req[r].adds) = 1
        /\ req[r].id \in DOMAIN tasks

\* C2: an update that committed makes no add call when the merged status equals
\* the original one (the queue is left as it is), and exactly one add call, for
\* a 'task-status-update' job carrying the task id and the new status, when it
\* differs; that call places exactly one such job on the queue (none if the
\* transport rejects the call). No other step of update touches the queue length.
UpdateEnqueuesOnStatusChange ==
    [][\A r \in Reqs :
          (req[r].op = "update" /\ req'[r].op = "update" /\ req'[r] # req[r])
          => IF req'[r].pc = "reload"
             THEN IF req'[r].orig = req'[r].saved
                  THEN req'[r].adds = << >> /\ Len(jobs') = Len(jobs)
                  ELSE /\ req'[r].adds = <<[taskId |-> req'[r].id,
                                           status |-> req'[r].saved]>>
                       /\ req[r].pc = "enqueue"
                       /\ \/ Len(jobs') = Len(jobs) /\ req'[r].placed = 0
                          \/ /\ Len(jobs') = Len(jobs) + 1
                             /\ req'[r].placed = 1
                             /\ jobs'[Len(jobs')].name = StatusUpdate
                             /\ jobs'[Len(jobs')].taskId = req'[r].id
                             /\ jobs'[Len(jobs')].status = req'[r].saved
                             /\ jobs'[Len(jobs')].state = "waiting"
             ELSE /\ Len(jobs') = Len(jobs)
                  /\ req'[r].pc = "ret" /\ req[r].pc = "reload"
                        => req'[r].adds = req[r].adds]_vars

\* C2 witness: an update changed the status and its job is on the queue
UpdatePlacedOneJob ==
    \E r \in Reqs :
        /\ req[r].op = "update" /\ req[r].pc = "reload"
        /\ req[r].orig # req[r].saved /\ req[r].placed = 1

\* C3: processing a status-update job created by the coordinator never replaces
\* the status the coordinator committed after the job was created: if the task
\* holds its last committed status when such a stale job is processed, it holds
\* it afterwards.
StaleJobKeepsCommittedStatus ==
    [][\A w \in Workers :
          (wrk[w].pc = "save" /\ wrk'[w].pc = "idle")
          => LET job == jobs[wrk[w].job] IN
                (/\ job.by = "coordinator" /\ job.stale
                 /\ job.taskId \in DOMAIN tasks
                 /\ tasks[job.taskId].status = lastCommitted[job.taskId])
                => tasks'[job.taskId].status = lastCommitted[job.taskId]]_vars

\* the queue is drained and nothing is in flight
Quiescent ==
    /\ \A j \in JobIds : jobs[j].state \in {"completed", "failed"}
    /\ \A w \in Workers : wrk[w].pc = "idle"
    /\ \A r \in Reqs : req[r].pc = "idle"

\* C4: once the queue is drained, every persisted task holds the status last
\* committed for it through the coordinator, whichever jobs were lost and in
\* whatever order the others were delivered.
DrainedQueueMatchesLastCommit ==
    Quiescent => \A t \in DOMAIN tasks : tasks[t].status = lastCommitted[t]

\* C9: a job with an unregistered type tag is executed at most once: after its
\* first execution threw it is failed, never waiting for another delivery.
UnknownTagNeverRetried ==
    \A j \in JobIds :
        (jobs[j].name = UnknownTag /\ jobs[j].made >= 1)
        => jobs[j].state = "failed" /\ jobs[j].made = 1

\* C10: a status-update job whose execution threw a validation failure or a
\* not-found failure is failed for good: it never waits for a redelivery.
TerminalFailureNeverRedelivered ==
    \A j \in JobIds :
        (jobs[j].name = StatusUpdate /\ jobs[j].err \in {"BadRequest", "NotFound"})
        => jobs[j].state = "failed"
\* ====================================================================
\* Claims about the counter store facade and the rate limiter
\* ====================================================================

\* the counter key of an admission check
CounterKey(c) == BuildKey(RateLimitNs, chk[c].ident)

\* C5: with the store healthy, the INCR of any caller returns one more than the
\* number of INCRs applied to the counter since it was created (the N-th
\* returns N, so no value is skipped or handed out twice) and leaves the key's
\* remaining time-to-live as it was; the caller goes on to EXPIRE exactly when
\* it was returned 1, so only that call ever sets the expiry.
IncrementCountsAndKeepsTtl ==
    [][\A c \in Checks :
          /\ (chk[c].pc = "incr" /\ chk'[c].pc # "incr" /\ ~chk'[c].incFault)
             => /\ chk'[c].newVal = applied[CounterKey(c)] + 1
                /\ store'[CounterKey(c)].n = chk'[c].newVal
                /\ CounterKey(c) \in DOMAIN store
                      => store'[CounterKey(c)].ttl = store[CounterKey(c)].ttl
                /\ chk'[c].pc = "expire" <=> chk'[c].newVal = 1
          /\ (chk[c].pc = "expire" /\ chk'[c].pc # "expire")
             => chk[c].newVal = 1]_vars

\* C5 witness: two callers are inside increment at once, the second one was
\* returned 2 while the first has not set the expiry yet
ConcurrentIncrements ==
    \E c, d \in Checks :
        /\ c # d
        /\ chk[c].pc = "expire" /\ chk[c].newVal = 1
        /\ chk[d].pc = "ret" /\ chk[d].newVal = 2 /\ ~chk[d].incFault

\* a check that ran without any store error
Healthy(c) == ~chk[c].incFault /\ ~chk[c].ttlFault

\* C6: with the store healthy, a finished check is admitted when its increment
\* was among the first `limit` of the counter's window, and is otherwise
\* rejected with limit = the route's limit, remaining = 0 and a reset delay that
\* is positive: ttl * 1000 ms when the ttl read is positive, else the window.
FirstLimitAdmittedRestRejected ==
    \A c \in Checks :
        (chk[c].pc = "ret" /\ Healthy(c))
        => /\ chk[c].ord >= 1
           /\ chk[c].ord <= chk[c].limit
                 => chk[c].verdict = "admit" /\ chk[c].payload = NoPayload
           /\ chk[c].ord > chk[c].limit
                 => /\ chk[c].verdict = "reject"
                    /\ chk[c].payload.limit = chk[c].limit
                    /\ chk[c].payload.remaining = 0
                    /\ chk[c].payload.resetIn > 0
                    /\ chk[c].ttl > 0 => chk[c].payload.resetIn = chk[c].ttl * 1000
                    /\ chk[c].ttl <= 0 => chk[c].payload.resetIn = chk[c].windowMs

\* C6 witness: the check after the limit-th one of a window was rejected
OverLimitRejected ==
    \E c \in Checks :
        /\ chk[c].pc = "ret" /\ Healthy(c)
        /\ chk[c].ord = chk[c].limit + 1 /\ chk[c].verdict = "reject"
        /\ chk[c].ttl > 0

\* C7 as stated: any store error during a check, the ttl lookup included, ends
\* in admission.
FailOpenOnAnyStoreError ==
    \A c \in Checks :
        (chk[c].pc = "ret" /\ (chk[c].incFault \/ chk[c].ttlFault))
        => chk[c].verdict = "admit"

\* C7 amended: a store error inside increment (store not connected, INCR or
\* EXPIRE failing) ends in admission whatever the counter holds; a failing ttl
\* lookup happens only after the count exceeded the limit and the check is then
\* still rejected, with the window as reset delay.
FailOpenOnIncrementError ==
    \A c \in Checks :
        chk[c].pc = "ret"
        => /\ chk[c].incFault
                 => chk[c].verdict = "admit" /\ chk[c].payload = NoPayload
           /\ (chk[c].ttlFault /\ ~chk[c].incFault)
                 => /\ chk[c].verdict = "reject"
                    /\ chk[c].cur > chk[c].limit
                    /\ chk[c].payload.resetIn = chk[c].windowMs

\* C7 witness: a check was admitted on a store error while the counter stood
\* above the limit
AdmittedOnErrorOverLimit ==
    \E c \in Checks :
        /\ chk[c].pc = "ret" /\ chk[c].incFault /\ chk[c].verdict = "admit"
        /\ CounterKey(c) \in DOMAIN store
        /\ store[CounterKey(c)].n > chk[c].limit

\* C8: no facade operation raises; when the store is not connected or the
\* store call fails, get returns null, delete and has return false, set and
\* clear return nothing and leave the store as it was, increment returns 0 and
\* getTTL returns -2.
FacadeNeverRaises ==
    /\ [](/\ fac.ret.kind # "raised"
          /\ fac.cond \in {"down", "throw"}
                => /\ fac.op = "get" => fac.ret = Null
                   /\ fac.op \in {"delete", "has"} => fac.ret = Bool(FALSE)
                   /\ fac.op \in {"set", "clear"} => fac.ret = Void
          /\ \A c \in Checks :
                /\ (chk[c].incFault /\ chk[c].pc \in {"ttl", "ret"})
                      => chk[c].cur = 0
                /\ chk[c].ttlFault => chk[c].ttl = -2)
    /\ [][(fac' # fac /\ fac'.cond \in {"down", "throw"})
              => store' = store]_vars

\* C8 witness: a get failed at the store and returned null
GetFailedReturnedNull ==
    fac.op = "get" /\ fac.cond = "throw" /\ fac.ret = Null

\* ====================================================================
\* Claims about retries of coordinator jobs
\* ====================================================================

\* C11: a status-update job enqueued by the coordinator whose execution threw a
\* transient failure is executed again until it succeeds or has been executed
\* MAX_RETRIES times: it is never abandoned as failed after fewer executions.
CoordinatorJobRetriedOnTransient ==
    \A j \in JobIds :
        (/\ jobs[j].by = "coordinator" /\ jobs[j].name = StatusUpdate
         /\ jobs[j].state = "failed" /\ jobs[j].err = "Transient")
        => jobs[j].made = MAX_RETRIES

\* ====================================================================
\* Claims about batchComplete and the coordinator's transactions
\* ====================================================================

\* C12: when batchComplete's transaction commits, the number of rows affected
\* is the number of tasks whose id is in ids, only those tasks change and each
\* of them is COMPLETED afterwards, every position of ids matching no task is
\* among the failed ones; the call returns success = affected and
\* failed = |ids| - success, both non-negative and adding up to |ids|.
BatchCompleteCounts ==
    /\ [](bat.pc = "ret" /\ bat.outcome = "ok"
            => /\ bat.success = bat.affected
               /\ bat.failed = Len(bat.ids) - bat.success
               /\ bat.success >= 0 /\ bat.failed >= 0
               /\ bat.success + bat.failed = Len(bat.ids))
    /\ [][(bat.pc = "update" /\ bat'.committed)
             => /\ bat'.affected = Cardinality(Matched(tasks, bat.ids))
                /\ Len(bat.ids) - bat'.affected
                      >= Cardinality({i \in 1..Len(bat.ids) :
                                         bat.ids[i] \notin DOMAIN tasks})
                /\ DOMAIN tasks' = DOMAIN tasks
                /\ \A t \in DOMAIN tasks :
                      IF \E i \in 1..Len(bat.ids) : bat.ids[i] = t
                      THEN tasks'[t].status = "COMPLETED"
                      ELSE tasks'[t] = tasks[t]]_vars

\* C12 witness: a batchComplete over an existing task and two missing ids
\* returned success = 1, failed = 2
BatchPartlyFailed ==
    /\ bat.pc = "ret" /\ bat.outcome = "ok"
    /\ Len(bat.ids) = 3 /\ bat.success = 1 /\ bat.failed = 2
    /\ \E i \in 1..3 : bat.ids[i] \in DOMAIN tasks
    /\ \E i \in 1..3 : bat.ids[i] \notin DOMAIN tasks

\* C13: when batchComplete's bulk enqueue succeeds, the number of jobs it
\* placed on the queue equals the success count it reports.
BatchJobsMatchSuccess ==
    (bat.pc = "ret" /\ bat.outcome = "ok" /\ bat.placed > 0)
    => bat.placed = bat.success

\* C16: a call of create, update or batchComplete hands a job to the queue only
\* once its transaction has committed and was not rolled back, nothing else
\* appends to the queue, and no call is ever both committed and rolled back.
EnqueueOnlyAfterCommit ==
    /\ [](/\ \A r \in Reqs : ~(req[r].committed /\ req[r].rolledBack)
          /\ ~(bat.committed /\ bat.rolledBack))
    /\ [][/\ \A r \in Reqs :
               (req'[r].op = req[r].op /\ Len(req'[r].adds) > Len(req[r].adds))
               => req[r].committed /\ ~req[r].rolledBack
          /\ Len(bat'.adds) > Len(bat.adds)
               => bat.committed /\ ~bat.rolledBack
          /\ Len(jobs') > Len(jobs)
               => \/ \E r \in Reqs : /\ req[r].committed /\ ~req[r].rolledBack
                                     /\ Len(req'[r].adds) = Len(req[r].adds) + 1
                                     /\ Len(jobs') = Len(jobs) + 1
                  \/ /\ bat.committed /\ ~bat.rolledBack
                     /\ Len(bat'.adds) = Len(bat.ids)
                     /\ Len(jobs') = Len(jobs) + Len(bat.ids)]_vars

\* C16 witness: batchComplete's enqueue threw after the commit and the call
\* returned its counts without a rollback
BatchReturnedAfterQueueError ==
    /\ bat.pc = "ret" /\ bat.committed /\ bat.outcome = "ok"
    /\ bat.placed = 0 /\ Len(bat.adds) > 0

UpdateMissingTaskNotFound ==
    [][\A r \in Reqs :
          (req[r].op = "update" /\ req[r].pc = "find" /\ req'[r] # req[r]
              /\ req[r].id \notin DOMAIN tasks)
          => /\ req'[r].pc = "ret"
             /\ req'[r].outcome = "NotFound"
             /\ req'[r].rolledBack /\ ~req'[r].committed
             /\ req'[r].adds = << >>
             /\ tasks' = tasks /\ jobs' = jobs]_vars

\* C18 witness: an update of a missing task ended with NotFound, rolled back
UpdateOfMissingTaskRolledBack ==
    \E r \in Reqs :
        /\ req[r].op = "update" /\ req[r].pc = "ret"
        /\ req[r].outcome = "NotFound" /\ req[r].rolledBack
        /\ req[r].id \notin DOMAIN tasks

\* ====================================================================
\* Claims about the scanner
\* ====================================================================

\* C14: a run that found n > 0 ids builds ceil(n / BATCH_SIZE) batches, the
\* k-th being the k-th stretch of BATCH_SIZE ids of the found list (so the
\* batches concatenated give the list, all but the last hold BATCH_SIZE ids and
\* the last between 1 and BATCH_SIZE), and hands one job per batch, in order,
\* to a single bulk call; when that call succeeds the queue holds exactly those
\* jobs. A run that found nothing submits nothing.
ScannerBatches ==
    LET n == Len(scan.found)
        B == BATCH_SIZE
    IN /\ scan.pc \in {"bulk", "fallback"} => n > 0
       /\ n > 0 =>
            /\ Len(scan.batches) = (n + B - 1) \div B
            /\ \A k \in 1..Len(scan.batches) :
                  /\ scan.batches[k] = SubSeq(scan.found, (k - 1) * B + 1,
                                              Min(k * B, n))
                  /\ k < Len(scan.batches) => Len(scan.batches[k]) = B
                  /\ Len(scan.batches[k]) >= 1 /\ Len(scan.batches[k]) <= B
            /\ scan.pc # "bulk" =>
                  scan.bulkCalls = 1 /\ scan.bulkJobs = scan.batches
            /\ (scan.pc = "ret" /\ scan.addCalls = << >>) =>
                  /\ Len(jobs) = Len(scan.batches)
                  /\ \A k \in 1..Len(jobs) :
                        /\ jobs[k].name = OverdueNotification
                        /\ jobs[k].ids = scan.batches[k]
                        /\ jobs[k].batchSize = B
       /\ (scan.pc = "ret" /\ n = 0) =>
            scan.bulkCalls = 0 /\ scan.addCalls = << >> /\ jobs = << >>

\* C14 witness: 250 ids found, submitted in one bulk call as batches of 100,
\* 100 and 50
ScannerBulkOf250 ==
    /\ scan.pc = "ret" /\ Len(scan.found) = 250 /\ scan.addCalls = << >>
    /\ Len(jobs) = 3
    /\ Len(jobs[1].ids) = 100 /\ Len(jobs[2].ids) = 100 /\ Len(jobs[3].ids) = 50

\* C15: once the bulk call threw, the batches are submitted one at a time in
\* order, each exactly once whether earlier ones failed or not; the run ends
\* without raising; the queue holds the batches whose submission succeeded and
\* the queued count is the sum of their sizes.
ScannerFallback ==
    LET sizeOf[k \in 0..Len(scan.added)] ==
            IF k = 0 THEN 0
            ELSE sizeOf[k - 1] + Len(scan.batches[scan.added[k]])
    IN /\ scan.bulkCalls = 1 => scan.outcome # "error"
       /\ scan.pc = "fallback" =>
            /\ scan.addCalls = [k \in 1..scan.i |-> k]
            /\ scan.i < Len(scan.batches)
       /\ (scan.pc = "ret" /\ scan.addCalls # << >>) =>
            scan.addCalls = [k \in 1..Len(scan.batches) |-> k]
       /\ scan.addCalls # << >> =>
            /\ scan.totalQueued = sizeOf[Len(scan.added)]
            /\ Len(jobs) = Len(scan.added)
            /\ \A k \in 1..Len(scan.added) : jobs[k].ids = scan.batches[scan.added[k]]

\* C15 witness: the bulk call threw, the second of three individual
\* submissions failed and the third was still made and succeeded
ScannerSkippedOneBatch ==
    /\ scan.pc = "ret" /\ scan.outcome = "ok"
    /\ scan.addCalls = <<1, 2, 3>> /\ scan.added = <<1, 3>>
    /\ scan.totalQueued = 150

\* ====================================================================
\* Claims about the overdue-notification handler
\* ====================================================================

\* C19: a handler run on a non-empty id list never raises and never attempts
\* an id twice; when it returns, every id was attempted exactly once and has
\* finished, total is the number of ids, processed + failed = total, and errors
\* holds exactly one entry for each failed id.
OverdueAggregate ==
    LET n == Len(ovd.ids)
        failedSet == {k \in 1..n : ovd.slot[k] = "failed"}
    IN /\ ovd.outcome # "error"
       /\ \A j \in JobIds : jobs[j].made = 0 /\ jobs[j].state # "failed"
       /\ \A k \in 1..n : ovd.attempts[k] <= 1
       /\ (ovd.pc = "done" /\ n > 0) =>
            /\ \A k \in 1..n : ovd.attempts[k] = 1 /\ ovd.slot[k] \in {"ok", "failed"}
            /\ ovd.total = n
            /\ ovd.processed + ovd.failed = ovd.total
            /\ ovd.failed = Cardinality(failedSet)
            /\ Len(ovd.errors) = ovd.failed
            /\ {ovd.errors[e] : e \in 1..Len(ovd.errors)} = failedSet

\* C19 witness: three ids handled one per batch; the first failed, the two
\* after it were still attempted and succeeded, and the job completed
OverdueFirstIdFailed ==
    /\ ovd.pc = "done" /\ ovd.outcome = "ok"
    /\ Len(ovd.ids) = 3 /\ ovd.batchSize = 1
    /\ ovd.errors = <<1>> /\ ovd.processed = 2 /\ ovd.failed = 1
    /\ jobs[1].state = "completed"

\* ====================================================================
\* Claims about routes
\* ====================================================================

\* the checks of the same client on the same route whose increment was applied
\* before that of check c
EarlierOnRoute(c) ==
    {d \in Checks \ {c} :
        /\ chk[d].ident = chk[c].ident /\ chk[d].limit = chk[c].limit
        /\ chk[d].ord >= 1 /\ chk[d].ord < chk[c].ord}

\* C20: with the store healthy, a finished check on a route is rejected only
\* when the same client already made at least `limit` checks on that same
\* route in the window; checks on another route do not count.
AdmissionPerRoute ==
    \A c \in Checks :
        (chk[c].pc = "ret" /\ Healthy(c) /\ chk[c].verdict = "reject")
        => Cardinality(EarlierOnRoute(c)) >= chk[c].limit

\* ====================================================================
\* Claims about counter expiry, client identity and keys
\* ====================================================================

\* C21: every rate-limit counter key in the store has a finite remaining
\* time-to-live, once the increment that created it is over (a check still
\* between its INCR and its EXPIRE is left out).
CounterAlwaysExpires ==
    \A k \in DOMAIN store :
        (/\ k \in {BuildKey(RateLimitNs, i) : i \in Idents}
         /\ \A c \in Checks : ~(chk[c].pc = "expire" /\ CounterKey(c) = k))
        => store[k].ttl # NoExpiry

\* t occurs in s
Contains(s, t) ==
    \E i \in 1..(Len(s) - Len(t) + 1) : SubSeq(s, i, i + Len(t) - 1) = t

\* C22: the address resolved for a request is the first hop of the
\* forwarded-for header if present, else the real-ip header, else the
\* connection address, else "unknown"; two requests with the same forwarded-for
\* first hop use one counter key whatever their connection address.
IdentityPrefersProxyHeaders ==
    /\ \A slot \in {"a", "b"} :
          LET request == idn[slot].request
              hop == Trim(FirstPart(request.forwardedFor))
              connection == OrElse(request.ip, request.remoteAddress)
          IN idn[slot].pc # "none" =>
                idn[slot].address =
                   OrElse(hop, OrElse(request.realIp, OrElse(connection, "unknown")))
    /\ (/\ idn.a.pc # "none" /\ idn.b.pc # "none"
        /\ Trim(FirstPart(idn.a.request.forwardedFor)) # NoAddress
        /\ Trim(FirstPart(idn.a.request.forwardedFor))
              = Trim(FirstPart(idn.b.request.forwardedFor)))
       => idn.a.key = idn.b.key

\* the raw addresses a request carries
RawAddresses(request) ==
    {request.ip, request.remoteAddress, request.realIp,
     Trim(FirstPart(request.forwardedFor))} \ {NoAddress}

ScannerSelectsOverdue ==
    LET table == TableOf(scan.backlog)
        queued == UNION {{jobs[j].ids[p] : p \in 1..Len(jobs[j].ids)} :
                            j \in 1..Len(jobs)}
        selected == {scan.found[p] : p \in 1..Len(scan.found)}
    IN (scan.pc # "idle" /\ scan.outcome # "error") =>
         /\ queued \subseteq selected
         /\ \A k \in selected :
               /\ table[k].hasDue /\ table[k].due < scan.now
               /\ table[k].status # "COMPLETED"
         /\ Len(scan.found) <= MAX_TASKS_PER_RUN
         /\ Len(scan.batches) <= 10 /\ Len(jobs) <= 10
         /\ Len(scan.found) = Min(scan.backlog.eligible, MAX_TASKS_PER_RUN)
         /\ \A p \in 1..(Len(scan.found) - 1) :
               table[scan.found[p]].due <= table[scan.found[p + 1]].due
         /\ selected # {} =>
               \A k \in 1..Len(table) :
                  (k \notin selected /\ table[k].hasDue /\ table[k].due < scan.now
                     /\ table[k].status # "COMPLETED")
                  => table[k].due >= table[scan.found[Len(scan.found)]].due

\* C24 witness: more tasks were eligible than the ceiling; the run queued the
\* 1000 longest overdue in 10 batch jobs and left the most recent one out
ScannerHitCeiling ==
    /\ scan.pc = "ret" /\ scan.outcome = "ok"
    /\ scan.backlog.eligible > MAX_TASKS_PER_RUN
    /\ Len(scan.found) = MAX_TASKS_PER_RUN /\ Len(jobs) = 10
    /\ scan.found[1] = 4 + scan.backlog.eligible
    /\ \A p \in 1..Len(scan.found) : scan.found[p] # 5

\* C25: a run that ends normally has issued the ceiling warning exactly when
\* at least MAX_TASKS_PER_RUN tasks were eligible.
CeilingWarningWhenBacklog ==
    (scan.pc = "ret" /\ scan.outcome = "ok" /\ scan.backlog # NoBacklog)
    => (scan.warned <=> scan.backlog.eligible >= MAX_TASKS_PER_RUN)

\* ====================================================================
\* Claims about attempts and job options
\* ====================================================================

\* C26: a job is executed at most as many times as its attempt count, which is
\* at most 3; a job that reached completed or failed is never touched again;
\* and every job on the queue eventually reaches completed or failed.
AttemptsBounded ==
    /\ [](\A j \in JobIds :
            /\ jobs[j].attempts <= JobAttempts
            /\ jobs[j].made <= jobs[j].attempts
            /\ jobs[j].state = "active" => jobs[j].made < jobs[j].attempts
            /\ jobs[j].state = "failed" => jobs[j].made = jobs[j].attempts)
    /\ [][\A j \in JobIds :
            jobs[j].state \in {"completed", "failed"} => jobs'[j] = jobs[j]]_vars
    /\ \A j \in 1..MaxJobs :
          (j \in JobIds) ~> (j \in JobIds /\ jobs[j].state \in {"completed", "failed"})

\* C26 witness: a job failed on its third execution and was abandoned
JobAbandonedAfterThree ==
    \E j \in JobIds :
        jobs[j].state = "failed" /\ jobs[j].made = 3 /\ jobs[j].err = "Transient"

\* C27: every job on the queue, whoever placed it, carries the attempt count
\* of the shared job options.
EveryJobCarriesPolicy ==
    \A j \in JobIds : jobs[j].attempts = JobAttempts

\* ====================================================================
\* Claims about batchDelete
\* ====================================================================

\* C28: a batchDelete call that returns reports success = the number of rows
\* it removed, which is the number of tasks whose id is in ids, and failed =
\* |ids| - success; afterwards no task with an id in ids exists, every other
\* task is as it was, and the queue is as it was.
BatchDeleteCounts ==
    [][(bat.pc = "idle" /\ bat'.op = "batchDelete" /\ bat'.outcome = "ok") =>
          LET ids == bat'.ids
              idset == {ids[i] : i \in 1..Len(ids)}
          IN /\ bat'.success = Cardinality(DOMAIN tasks \ DOMAIN tasks')
             /\ bat'.success = Cardinality(idset \cap DOMAIN tasks)
             /\ bat'.failed = Len(ids) - bat'.success
             /\ bat'.failed >= 0
             /\ DOMAIN tasks' = DOMAIN tasks \ idset
             /\ \A t \in DOMAIN tasks' : tasks'[t] = tasks[t]
             /\ jobs' = jobs]_vars

\* C28 witness: of three ids one named a task; it was deleted, the other task
\* is still there and the call returned success 1, failed 2
BatchDeletePartlyFailed ==
    /\ bat.op = "batchDelete" /\ bat.pc = "ret" /\ bat.outcome = "ok"
    /\ Len(bat.ids) = 3 /\ bat.success = 1 /\ bat.failed = 2
    /\ DOMAIN tasks # {}
    /\ \A i \in 1..3 : bat.ids[i] \notin DOMAIN tasks
    /\ jobs # << >>

\* ====================================================================
\* Claims about the status-update handler
\* ====================================================================

\* C29: an execution of a status-update job {taskId, status} that saves leaves
\* the task with that status and completes the job; when the task already has
\* that status (the job was applied before and nothing else wrote since) the
\* save changes nothing in the task table; and such an execution fails only on
\* a store fault.
StatusUpdateIdempotent ==
    [][\A w \in Workers :
          LET job == jobs[wrk[w].job]
              already == /\ job.taskId \in DOMAIN tasks
                         /\ tasks[job.taskId].status = job.status
          IN /\ (wrk[w].pc = "save" /\ wrk'[w].pc = "idle") =>
                   /\ tasks'[job.taskId].status = job.status
                   /\ jobs'[wrk[w].job].state = "completed"
                   /\ already => tasks' = tasks
             /\ (wrk[w].pc = "run" /\ Dispatch(job) = "handleStatusUpdate"
                   /\ Validate(job) = "none" /\ already /\ wrk'[w].pc = "idle")
                => jobs'[wrk[w].job].err = "Transient"]_vars

\* C29 witness: two status-update jobs were completed at their first execution,
\* both on task 1 (task 2 still has its first status), and task 1 has the
\* status they carried
SameJobAppliedTwice ==
    /\ Len(jobs) = 2
    /\ \A j \in 1..2 :
          jobs[j].name = StatusUpdate /\ jobs[j].state = "completed" /\ jobs[j].made = 0
    /\ DOMAIN tasks = TaskIds
    /\ tasks[1].status = "IN_PROGRESS" /\ tasks[2].status = "PENDING"

\* C30: an execution of a status-update job whose payload has no task id, no
\* status or a status outside the three known ones ends with a validation
\* failure and never reaches the task store, so the task table stays as it is;
\* an execution with a valid payload is the only kind that reaches the store,
\* and its one save writes the job's status to the job's task and to no other.
StatusUpdateValidated ==
    /\ [](\A w \in Workers :
            wrk[w].pc = "save" =>
               /\ jobs[wrk[w].job].taskId # NoId
               /\ jobs[wrk[w].job].status \in Statuses)
    /\ [][\A w \in Workers :
            LET job == jobs[wrk[w].job]
                valid == job.taskId # NoId /\ job.status \in Statuses
            IN /\ (wrk[w].pc = "run" /\ job.name = StatusUpdate /\ ~valid
                     /\ wrk'[w] # wrk[w])
                  => /\ wrk'[w].pc = "idle"
                     /\ jobs'[wrk[w].job].err = "BadRequest"
                     /\ tasks' = tasks
               /\ (wrk[w].pc = "run" /\ job.name = StatusUpdate /\ valid
                     /\ wrk'[w] # wrk[w])
                  => /\ tasks' = tasks
                     /\ \/ wrk'[w].pc = "save"
                        \/ jobs'[wrk[w].job].err \in {"NotFound", "Transient"}
               /\ (wrk[w].pc = "save" /\ wrk'[w] # wrk[w])
                  => /\ wrk'[w].pc = "idle"
                     /\ tasks'[job.taskId].status = job.status
                     /\ \A t \in DOMAIN tasks' \ {job.taskId} :
                           t \in DOMAIN tasks /\ tasks'[t] = tasks[t]]_vars

\* C30 witness: a job whose payload named an unknown status was rejected three
\* times and abandoned while both tasks kept their status
InvalidPayloadRejected ==
    /\ \E j \in JobIds :
          /\ jobs[j].name = StatusUpdate /\ jobs[j].state = "failed"
          /\ jobs[j].err = "BadRequest" /\ jobs[j].made = 3
    /\ DOMAIN tasks = TaskIds
    /\ \A t \in TaskIds : tasks[t].status = "PENDING"

\* C31: batchComplete hands all its jobs, one per input id, to the queue in one
\* addBulk call made after the commit; a call with an empty id list makes no
\* addBulk call; when addBulk throws the queue is left as it was, the committed
\* rows stay, the call still returns, and its counts are the ones it returns
\* when addBulk succeeds.
BatchOneBulkCall ==
    /\ [](bat.op = "batchComplete"
            => /\ bat.bulks <= 1
               /\ (bat.pc = "ret" /\ bat.outcome = "ok")
                    => /\ bat.bulks = (IF Len(bat.ids) = 0 THEN 0 ELSE 1)
                       /\ Len(bat.ids) = 0 => bat.adds = << >> /\ bat.placed = 0
                       /\ bat.committed /\ ~bat.rolledBack
                       /\ [success |-> bat.success, failed |-> bat.failed]
                            = BatchCounts(Len(bat.ids), bat.affected))
    /\ [][bat'.bulks > bat.bulks
            => /\ bat.committed /\ bat.pc = "enqueue" /\ bat.bulks = 0
               /\ bat'.adds = BatchJobs(bat.ids)
               /\ Len(bat'.adds) = Len(bat.ids)
               /\ tasks' = tasks
               /\ bat'.pc = "ret" /\ bat'.outcome = "ok"
               /\ bat'.affected = bat.affected
               /\ \/ bat'.placed = Len(bat.ids)
                     /\ Len(jobs') = Len(jobs) + Len(bat.ids)
                  \/ bat'.placed = 0 /\ jobs' = jobs]_vars

\* C31 witness: addBulk threw for a batchComplete over two ids of which one
\* exists; the task is COMPLETED, the queue took nothing and the call returns
\* success = 1, failed = 1
BatchBulkCallThrew ==
    /\ bat.op = "batchComplete" /\ bat.pc = "ret" /\ bat.outcome = "ok"
    /\ bat.bulks = 1 /\ bat.placed = 0 /\ Len(bat.adds) = 2
    /\ bat.success = 1 /\ bat.failed = 1
    /\ \E i \in 1..2 : /\ bat.ids[i] \in DOMAIN tasks
                        /\ tasks[bat.ids[i]].status = "COMPLETED"

\* C32: mutations of one task id are serializable: every write of a task row,
\* by the coordinator's update or by the job processor's updateStatus, acts on
\* the row as it is when the write happens, so the final row is the result of
\* the mutations applied one after the other in the order of their writes;
\* updateStatus changes the status alone and writes back no column value that
\* was replaced between its read and its save, and update writes the merge of
\* its dto into the row as it is at commit.
MutationsSerializable ==
    [][/\ \A w \in Workers :
            (wrk[w].pc = "save" /\ wrk'[w].pc = "idle"
                /\ jobs[wrk[w].job].taskId \in DOMAIN tasks)
            => LET job == jobs[wrk[w].job] IN
                  tasks'[job.taskId] = [tasks[job.taskId] EXCEPT !.status = job.status]
       /\ \A r \in Reqs :
            (req[r].op = "update" /\ req[r].pc = "save" /\ req'[r].committed
                /\ req[r].id \in DOMAIN tasks)
            => tasks'[req[r].id]
                  = Row(Merge(tasks[req[r].id].status, req[r].dto),
                        MergeTitle(tasks[req[r].id].title, req[r].dto))]_vars

\* C33: processing an overdue-notification job changes the status of no task:
\* every step of the handler leaves each task that exists with the status it
\* had, so a task that is COMPLETED or IN_PROGRESS when the job runs keeps that
\* status.
OverdueKeepsStatus ==
    [][(ovd.pc \in {"loop", "await"} /\ ovd' # ovd)
          => \A t \in DOMAIN tasks \cap DOMAIN tasks' :
                tasks'[t].status = tasks[t].status]_vars

\* the backlog whose tasks the store holds
HeldBacklog == CHOOSE backlog \in Backlogs : Holds(backlog)

\* task k is overdue and not COMPLETED as the store stands
Eligible(k) ==
    /\ k \in DOMAIN tasks
    /\ IsOverdue(StoreTable(HeldBacklog)[k], HeldBacklog.now)

\* task k is among the ids of a job on the queue
InBatchJob(k) ==
    \E j \in JobIds : \E p \in 1..Len(jobs[j].ids) : jobs[j].ids[p] = k

\* the tasks at both ends of the due order of the largest backlog, and those
\* next to the per-run ceiling
StarvationSample ==
    {5, 6, 4 + MAX_TASKS_PER_RUN, 4 + MaxEligible}

\* C34: no starvation in the scanner: with the scanner firing again and again
\* and every submission succeeding, every task that stays overdue and not
\* COMPLETED is at some time among the ids of a batch job on the queue, also
\* when more tasks are eligible than one run takes (stated for the tasks of
\* StarvationSample).
NoStarvation ==
    \A k \in StarvationSample : ([]Eligible(k)) => <>InBatchJob(k)

\* C35: the overdue-notification handler terminates for every payload with a
\* non-empty id list, whatever batchSize it carries, zero and negative values
\* included: a handler run that has started its batch loop ends, returning an
\* aggregate whose total is the number of ids.
OverdueTerminates ==
    (ovd.pc \in {"loop", "await"})
        ~> (ovd.pc = "done" /\ ovd.outcome = "ok" /\ ovd.total = Len(ovd.ids))

\* C36: within one scanner run every found id is in exactly one batch, and
\* each batch is on the queue at most once: no batch was placed there both by
\* the bulk call and by the one-at-a-time fallback, also when the bulk call
\* threw after part of its jobs were taken.
BatchQueuedOnce ==
    LET n == Len(scan.found)
        posOf(b) == {(b - 1) * BATCH_SIZE + p : p \in 1..Len(scan.batches[b])}
    IN /\ scan.batches # << >> =>
            /\ \A p \in 1..n :
                  \E b \in 1..Len(scan.batches) :
                     /\ p \in posOf(b)
                     /\ scan.batches[b][p - (b - 1) * BATCH_SIZE] = scan.found[p]
                     /\ \A c \in 1..Len(scan.batches) : p \in posOf(c) => c = b
            /\ \A b \in 1..Len(scan.batches) : Len(scan.batches[b]) > 0
       /\ \A b \in 1..Len(scan.batches) :
            Cardinality({j \in JobIds : jobs[j].ids = scan.batches[b]}) <= 1

\* C37: an update that ends raising an error to its caller has not committed:
\* its transaction was rolled back, it handed no job to the queue, and the
\* task is as it was, also when the task is deleted between the commit and the
\* final reload.
UpdateErrorMeansRolledBack ==
    \A r \in Reqs :
        (req[r].op = "update" /\ req[r].pc = "ret" /\ req[r].outcome # "ok")
        => /\ ~req[r].committed
           /\ req[r].rolledBack
           /\ req[r].adds = << >> /\ req[r].placed = 0

\* C38: an overdue-notification job whose payload has no taskIds, an empty id
\* list, or a taskIds that is no list completes on its first execution, in the
\* one step that begins it: the handler returns its no-op result, the batch
\* loop is not entered, no task is read or written, and the job never fails
\* or waits for a retry.
NoIdsIsNoOp ==
    /\ [](\A j \in JobIds :
            (jobs[j].idsKind # "list"
                \/ (jobs[j].state \in {"waiting", "active"} /\ jobs[j].ids = << >>))
            => jobs[j].made = 0 /\ jobs[j].state # "failed")
    /\ [][\A w \in Workers :
            (wrk[w].pc = "run" /\ wrk'[w] # wrk[w]
                /\ jobs[wrk[w].job].name = OverdueNotification
                /\ (jobs[wrk[w].job].idsKind # "list" \/ jobs[wrk[w].job].ids = << >>))
            => /\ jobs'[wrk[w].job].state = "completed"
               /\ jobs'[wrk[w].job].made = 0
               /\ wrk'[w] = IdleWrk
               /\ ovd'.pc = "done" /\ ovd'.outcome = "ok"
               /\ ovd'.ids = << >> /\ ovd'.slot = << >> /\ ovd'.processed = 0
               /\ tasks' = tasks]_vars

\* C38 witness: a job whose taskIds is a text completed at its first execution
\* while every task kept its IN_PROGRESS status
TextIdsJobCompleted ==
    /\ jobs # << >>
    /\ jobs[1].idsKind = "text" /\ jobs[1].state = "completed" /\ jobs[1].made = 0
    /\ ovd.pc = "done" /\ ovd.outcome = "ok" /\ ovd.total = 0
    /\ \A t \in TaskIds : t \in DOMAIN tasks /\ tasks[t].status = "IN_PROGRESS"

\* what the store holds for the pair (namespace, key)
NoEntry == [kind |-> "none", n |-> 0, ttl |-> 0]
EntryOf(st, p) ==
    IF BuildKey(p.ns, p.key) \in DOMAIN st THEN st[BuildKey(p.ns, p.key)] ELSE NoEntry

\* C39: namespace isolation in the facade: a set or delete addressed to the
\* pair (n, k) that the store carried out leaves what every other pair
\* (n2, k2) holds as it was, and a clear of namespace n that the store carried
\* out leaves no entry of any pair of n and leaves the entry of every pair of
\* another namespace as it was.
NamespacesIsolated ==
    [][/\ \A p \in NestedPairs :
             (fac'.cond = "ok"
                 /\ \/ \E ttl \in 1..MaxTtl : Set(p.ns, p.key, ttl)
                    \/ Delete(p.ns, p.key))
             => \A q \in NestedPairs \ {p} : EntryOf(store', q) = EntryOf(store, q)
       /\ \A n \in NestedNamespaces :
             (fac'.cond = "ok" /\ Clear(n))
             => \A q \in NestedPairs :
                   IF q.ns = n
                   THEN EntryOf(store', q) = NoEntry
                   ELSE EntryOf(store', q) = EntryOf(store, q)]_vars

\* the queue as the call left it shows no other actor: every job on it is
\* still waiting and the jobs of other producers are those counted before
QueueOtherwiseUntouched ==
    /\ \A j \in JobIds : jobs[j].state = "waiting"
    /\ Cardinality({j \in JobIds : jobs[j].by # "scanner"}) = scan.beforeCount

\* C40: at its return the manual trigger hands back found = queued = the
\* waiting count after the run minus the waiting count before it; that number
\* is never negative, and when nothing else touched the queue it is the
\* number of overdue tasks the run found and queued.
ManualReturnsTasksQueued ==
    [][(scan.pc = "ret" /\ scan'.pc = "returned" /\ scan'.result.kind = "value")
       => /\ scan'.result.found = scan'.result.queued
          /\ scan'.result.queued = WaitingCount(jobs) - scan.beforeCount
          /\ scan'.result.queued >= 0
          /\ QueueOtherwiseUntouched
                => /\ scan'.result.queued = scan.totalQueued
                   /\ scan.addCalls = << >>
                         => scan'.result.queued = Len(scan.found)]_vars
====
